---- MODULE Spec2Model ----
(***************************************************************************)
(* Parallel k-way multi-try FM refinement of KaHIP: exploration rounds of  *)
(* the workers on thread-local shadow state and the coordinator's apply    *)
(* phase on the shared graph (kway_graph_refinement_core.cpp).             *)
(***************************************************************************)
EXTENDS Integers, Sequences, FiniteSets, TLC

(***************************************************************************)
(* The graph level (immutable CSR) and the configuration.                  *)
(***************************************************************************)
Nodes == 0..3
Blocks == 0..1
Workers == 0..1

\* CSR adjacency: for every vertex the sequence of <<target, edge weight>>.
Adj == [v \in Nodes |->
          CASE v = 0 -> << <<1, 1>>, <<2, 1>> >>
            [] v = 1 -> << <<0, 1>>, <<2, 1>> >>
            [] v = 2 -> << <<0, 1>>, <<1, 1>>, <<3, 1>> >>
            [] v = 3 -> << <<2, 1>> >>]

getNodeWeight(v) == IF v = 0 \/ v = 3 THEN 3 ELSE 1

\* rounds a worker may run in one batch, and start nodes per round
MaxRounds == 2
MaxStartNodes == 1


INVALID_PARTITION == -1
\* the log sentinel (std::numeric_limits<unsigned>::max() in the code)
sentinel == -2
\* owner id written by the conflict policies: "moved for all threads"
AllThreads == 99

Strategies == {"LOCAL_SEARCH", "GAIN_RECALCULATION", "REACTIVE_VERTICES", "SKIP"}

Degree(v) == Len(Adj[v])
Target(v, e) == Adj[v][e][1]
EdgeWeight(v, e) == Adj[v][e][2]
Neighbours(v) == {Target(v, e) : e \in 1..Degree(v)}

Max(a, b) == IF a >= b THEN a ELSE b

RECURSIVE SumOver(_, _)
\* sum of f[x] over the finite set S
SumOver(f, S) ==
  IF S = {} THEN 0
  ELSE LET x == CHOOSE y \in S : TRUE IN f[x] + SumOver(f, S \ {x})

\* weight of the edges from v into block b under the labelling L
Conn(L, v, b) ==
  LET E == {e \in 1..Degree(v) : L[Target(v, e)] = b}
  IN  SumOver([e \in E |-> EdgeWeight(v, e)], E)

\* total weight of the cut edges under L (every undirected edge once)
EdgeCut(L) ==
  LET A == {<<v, e>> \in Nodes \X (1..Cardinality(Nodes)) :
              e <= Degree(v) /\ v < Target(v, e) /\ L[v] # L[Target(v, e)]}
  IN  SumOver([a \in A |-> EdgeWeight(a[1], a[2])], A)

WeightOf(L, b) ==
  LET S == {v \in Nodes : L[v] = b} IN SumOver([v \in S |-> getNodeWeight(v)], S)
SizeOf(L, b) == Cardinality({v \in Nodes : L[v] = b})

\* gain of v towards its best external block under L:
\* [gain, to, ext_degree]; to = INVALID_PARTITION when v has no external edge
compute_gain(L, v) ==
  LET from == L[v]
      ext  == {b \in Blocks \ {from} : \E e \in 1..Degree(v) : L[Target(v, e)] = b}
  IN  IF ext = {}
      THEN [gain |-> 0 - Conn(L, v, from), to |-> INVALID_PARTITION, ext_degree |-> 0]
      ELSE LET to == CHOOSE b \in ext : \A c \in ext : Conn(L, v, b) >= Conn(L, v, c)
           IN  [gain |-> Conn(L, v, to) - Conn(L, v, from), to |-> to,
                ext_degree |-> Conn(L, v, to)]

\* directed boundary sets of the labelling L: B(a->b)
BoundaryOf(L) ==
  [p \in {q \in Blocks \X Blocks : q[1] # q[2]} |->
     {v \in Nodes : L[v] = p[1] /\ \E u \in Neighbours(v) : L[u] = p[2]}]

BoundaryNodes(L) == {v \in Nodes : \E u \in Neighbours(v) : L[u] # L[v]}

max_number_of_swaps == Cardinality(Nodes)

\* the values of config.upper_bound_partition: one that binds (a block may not
\* take all nodes but one) and one that never does
TightUpperBound == WeightOf([v \in Nodes |-> 0], 0) - 2
LooseUpperBound == WeightOf([v \in Nodes |-> 0], 0) + 1

(***************************************************************************)
(* State.                                                                  *)
(***************************************************************************)
VARIABLES
  config,               \* upper_bound_partition and apply_move_strategy ("unread"
                        \* until the apply phase reads it)
  part,                 \* shared block label of every vertex (graph store)
  blockWeight,          \* shared per-block weight (boundary aggregates)
  blockNoNodes,         \* shared per-block node count
  boundary,             \* shared boundary index: directed boundary sets
  moved_idx,            \* the atomic claim bit of every vertex
  num_threads_finished, \* the round-wide early-termination counter
  finished_threads,     \* concurrent queue of the ids of finished pool workers
  td,                   \* thread_data_refinement_core of every worker
  co,                   \* the coordinator's frame in apply_moves
  moved_nodes,          \* apply phase: vertex -> <<owner, original from>>
  aborted,              \* an always-on assertion failed or the process crashed
  hist,                 \* observations: initial labelling, last relaxed call, ...
  ct,                   \* the cluster contractor: input, workers, tables, result
  app,                  \* kaffpa's main: arguments, configuration, graph labels
  qgr                   \* quotient_graph_refinement::perform_refinement's frame

vars == <<config, part, blockWeight, blockNoNodes, boundary, moved_idx,
          num_threads_finished, finished_threads, td, co, moved_nodes, aborted,
          hist, ct, app, qgr>>

shared == <<part, blockWeight, blockNoNodes, boundary>>

upper_bound_partition == config.upper_bound_partition
strategy == config.apply_move_strategy

\* the contractor is not running
CtOff == [variant |-> "off"]
\* main is not running
AppOff == [pc |-> "off"]
\* the quotient-graph refinement is not running
QgrOff == [pc |-> "off"]

NoKey == [v \in Nodes |-> 0]
NoOverride == [v \in Nodes |-> INVALID_PARTITION]
SentinelEntry == [node |-> sentinel, from |-> sentinel, to |-> sentinel, gain |-> sentinel]

\* thread data at the start of a batch: local counters copy the shared aggregates
InitThreadData(L) ==
  [pc |-> "idle", rounds |-> 0,
   qn |-> {}, key |-> NoKey,
   nodes_partitions |-> NoOverride,
   parts_weights |-> [b \in Blocks |-> WeightOf(L, b)],
   parts_sizes |-> [b \in Blocks |-> SizeOf(L, b)],
   pre_weights |-> [b \in Blocks |-> WeightOf(L, b)],
   pre_sizes |-> [b \in Blocks |-> SizeOf(L, b)],
   moved |-> {}, nstart |-> 0,
   log |-> <<>>, min_cut_indices |-> <<>>, improvements |-> <<>>, stop |-> "none",
   cut |-> 0, best_cut |-> 0, min_cut_index |-> -1, previously_moved |-> 0,
   number_of_swaps |-> 0, movements |-> 0,
   mv |-> SentinelEntry, e |-> 0]

\* td.get_local_partition: the thread-local override, else the shared label
get_local_partition(t, v) ==
  IF t.nodes_partitions[v] # INVALID_PARTITION THEN t.nodes_partitions[v] ELSE part[v]

\* the labelling a worker sees
LocalView(t) == [v \in Nodes |-> get_local_partition(t, v)]

(***************************************************************************)
(* Exploration: one worker's localized FM rounds on its local view.  A     *)
(* step of a worker is one access to state other threads share (a          *)
(* compare-exchange of moved_idx, a read of num_threads_finished, a read   *)
(* of shared labels) together with the thread-local code that follows it.  *)
(***************************************************************************)

\* a faulty init_queue_with_boundary that inserts without the compare-exchange
init_queue_unclaimed(t, v) ==
  [t EXCEPT !.qn = @ \cup {v},
            !.key = [@ EXCEPT ![v] = compute_gain(LocalView(t), v).gain],
            !.moved = @ \cup {v}]

\* init_queue_with_boundary, one start node: claim by compare-exchange, then
\* insert with the gain in the local view
init_queue_with_boundary(t, v) ==
  IF ~moved_idx[v]
  THEN [t EXCEPT !.qn = @ \cup {v},
                 !.key = [@ EXCEPT ![v] = compute_gain(LocalView(t), v).gain],
                 !.moved = @ \cup {v}]
  ELSE t

\* single_kway_refinement_round_internal after init_queue_with_boundary: an
\* empty queue ends the round with a sentinel and min_cut_index -1 (the caller
\* records <<-1, index of the sentinel>>), else the loop variables are set up
begin_round(t) ==
  IF t.qn = {}
  THEN [t EXCEPT !.pc = "idle", !.rounds = @ + 1, !.nstart = 0,
                 !.log = Append(@, SentinelEntry),
                 !.min_cut_indices = Append(@, <<-1, Len(t.log)>>),
                 !.improvements = Append(@, 0), !.stop = "loop_end"]
  ELSE [t EXCEPT !.pc = "loop", !.nstart = 0,
                 !.previously_moved = Len(t.log),
                 !.min_cut_index = Len(t.log) - 1,
                 !.cut = 0, !.best_cut = 0,
                 !.number_of_swaps = 0, !.movements = 0,
                 !.pre_weights = t.parts_weights,
                 !.pre_sizes = t.parts_sizes]

\* The caller hands the worker the next start node v of a round (the first one
\* opens the round and clears the queue); after the last one the round begins.
RoundStart(w, v, last) ==
  LET t  == td[w]
      t0 == IF t.pc = "idle" THEN [t EXCEPT !.pc = "init", !.qn = {}, !.key = NoKey]
            ELSE t
      t1 == [init_queue_with_boundary(t0, v) EXCEPT !.nstart = @ + 1]
  IN
  /\ ~aborted
  /\ \/ t.pc = "idle" /\ t.rounds < MaxRounds
     \/ t.pc = "init"
  /\ v \in BoundaryNodes(part)
  /\ moved_idx' = [moved_idx EXCEPT ![v] = TRUE]
  /\ td' = [td EXCEPT ![w] = IF last \/ t1.nstart >= MaxStartNodes
                             THEN begin_round(t1) ELSE t1]
  /\ UNCHANGED <<ct, app, qgr, config, shared, num_threads_finished, finished_threads, co,
                 moved_nodes, aborted, hist>>

\* local_move_back_node: the local counters of one unrolled move
local_move_back_node(t, node, from, to) ==
  [t EXCEPT
     !.parts_weights = [@ EXCEPT ![from] = @ + getNodeWeight(node),
                                 ![to] = @ - getNodeWeight(node)],
     !.parts_sizes = [@ EXCEPT ![to] = @ - 1, ![from] = @ + 1]]

RECURSIVE unroll_from(_, _, _)
\* unroll_moves, from log index `index` (0-based) down to min_cut_index + 1
unroll_from(t, min_cut_index, index) ==
  IF index <= min_cut_index \/ index < 0
  THEN t
  ELSE unroll_from(local_move_back_node(t, t.log[index + 1].node, t.log[index + 1].from,
                                        t.log[index + 1].to),
                   min_cut_index, index - 1)

unroll_moves(t, min_cut_index) == unroll_from(t, min_cut_index, Len(t.log) - 1)

\* a faulty end of the round that pushes the sentinel without unrolling
end_round_without_unroll(t) ==
  [t EXCEPT
     !.pc = "idle", !.rounds = @ + 1,
     !.nodes_partitions = NoOverride,
     !.qn = {}, !.key = NoKey,
     !.cut = 0, !.best_cut = 0, !.min_cut_index = -1, !.previously_moved = 0,
     !.number_of_swaps = 0, !.movements = 0,
     !.log = Append(@, SentinelEntry),
     !.min_cut_indices = Append(@, <<t.min_cut_index, Len(t.log)>>),
     !.improvements = Append(@, 0 - t.best_cut)]

\* the round after its loop: unroll, drop the local labels, push the sentinel;
\* the caller records <<min_cut_index, index of the sentinel>> and the returned
\* improvement initial_cut - best_cut (the cut is counted from 0 here)
end_round(t) ==
  [unroll_moves(t, t.min_cut_index) EXCEPT
     !.pc = "idle", !.rounds = @ + 1,
     !.nodes_partitions = NoOverride,
     !.qn = {}, !.key = NoKey,
     !.cut = 0, !.best_cut = 0, !.min_cut_index = -1, !.previously_moved = 0,
     !.number_of_swaps = 0, !.movements = 0,
     !.log = Append(@, SentinelEntry),
     !.min_cut_indices = Append(@, <<t.min_cut_index, Len(t.log)>>),
     !.improvements = Append(@, 0 - t.best_cut)]

\* head of the round loop: bound, empty queue, early termination, stop rule
\* (stop records whether the loop was left by the early-termination check)
LoopHead(w) ==
  LET t == td[w] IN
  /\ ~aborted
  /\ t.pc = "loop"
  /\ \/ /\ \/ t.movements >= max_number_of_swaps
           \/ t.qn = {}
           \/ num_threads_finished > 0
        /\ td' = [td EXCEPT ![w] =
                    [end_round(t) EXCEPT
                       !.stop = IF t.movements < max_number_of_swaps /\ t.qn # {}
                                THEN "threads_finished" ELSE "loop_end"]]
     \/ /\ t.movements < max_number_of_swaps
        /\ t.qn # {}
        /\ num_threads_finished = 0
        /\ \E search_should_stop \in BOOLEAN :
             td' = [td EXCEPT ![w] = IF search_should_stop
                                     THEN [end_round(t) EXCEPT !.stop = "loop_end"]
                                     ELSE [t EXCEPT !.pc = "pop"]]
  /\ UNCHANGED <<ct, app, qgr, config, shared, moved_idx, num_threads_finished,
                 finished_threads, co, moved_nodes, aborted, hist>>

\* the label written to the shared graph instead
set_shared_partition(x, node, to) ==
  [x EXCEPT !.part = [@ EXCEPT ![node] = to]]

\* td.set_local_partition on x = [t, part]: the label goes to the thread-local
\* override map, the shared labels stay as they are
set_local_partition(x, node, to) ==
  [x EXCEPT !.t.nodes_partitions = [@ EXCEPT ![node] = to]]

\* a faulty local_move_node that labels the vertex in the shared graph
local_move_node_on_graph(t, node, gain) ==
  LET from == get_local_partition(t, node)
      r    == compute_gain(LocalView(t), node)
      w_n  == getNodeWeight(node)
      t1   == [t EXCEPT
                 !.parts_weights = [@ EXCEPT ![r.to] = @ + w_n, ![from] = @ - w_n],
                 !.parts_sizes = [@ EXCEPT ![r.to] = @ + 1, ![from] = @ - 1],
                 !.mv = [node |-> node, from |-> from, to |-> r.to, gain |-> gain]]
      x    == set_shared_partition([t |-> t1, part |-> part], node, r.to)
  IN  IF r.gain # gain \/ r.to = INVALID_PARTITION
      THEN [result |-> "abort", t |-> t, part |-> part]
      ELSE IF t.parts_sizes[from] = 1
      THEN [result |-> "refused", t |-> t, part |-> part]
      ELSE IF t.parts_weights[r.to] + w_n >= upper_bound_partition
      THEN [result |-> "refused", t |-> t, part |-> part]
      ELSE [result |-> "moved", t |-> x.t, part |-> x.part]

\* local_move_node up to its neighbour loop, for the popped node: the new
\* thread data and shared labels, with result "moved", "refused" or "abort"
\* (an always-on assertion fails)
local_move_node(t, node, gain) ==
  LET from == get_local_partition(t, node)
      r    == compute_gain(LocalView(t), node)
      to   == r.to
      w_n  == getNodeWeight(node)
      t1   == [t EXCEPT
                 !.parts_weights = [@ EXCEPT ![to] = @ + w_n, ![from] = @ - w_n],
                 !.parts_sizes = [@ EXCEPT ![to] = @ + 1, ![from] = @ - 1],
                 !.mv = [node |-> node, from |-> from, to |-> to, gain |-> gain]]
      x    == set_local_partition([t |-> t1, part |-> part], node, to)
  IN  IF r.gain # gain \/ to = INVALID_PARTITION
      THEN [result |-> "abort", t |-> t, part |-> part]
      ELSE IF t.parts_sizes[from] = 1
      THEN [result |-> "refused", t |-> t, part |-> part]
      ELSE IF t.parts_weights[to] + w_n >= upper_bound_partition
      THEN [result |-> "refused", t |-> t, part |-> part]
      ELSE [result |-> "moved", t |-> x.t, part |-> x.part]

\* deleteMax and the head of local_move_node
Pop(w) ==
  LET t == td[w] IN
  /\ ~aborted
  /\ t.pc = "pop"
  /\ \E node \in t.qn :
       /\ \A u \in t.qn : t.key[u] <= t.key[node]
       /\ LET q == [t EXCEPT !.qn = @ \ {node}, !.key = [@ EXCEPT ![node] = 0]]
              m == local_move_node(q, node, t.key[node])
          IN  /\ part' = m.part
              /\ CASE m.result = "abort" ->
                     /\ aborted' = TRUE
                     /\ td' = td
                [] m.result = "refused" ->
                     /\ aborted' = aborted
                     /\ td' = [td EXCEPT ![w] = [q EXCEPT !.pc = "loop",
                                                         !.movements = @ + 1]]
                [] m.result = "moved" ->
                     /\ aborted' = aborted
                     /\ td' = [td EXCEPT ![w] = [m.t EXCEPT !.pc = "nbrs", !.e = 1]]
  /\ UNCHANGED <<ct, app, qgr, config, blockWeight, blockNoNodes, boundary, moved_idx,
                 num_threads_finished, finished_threads, co, moved_nodes, hist>>

\* a faulty acceptance that takes every accepted move as the new best index
accept_move_always_best(t, accept_equal) ==
  LET cut == t.cut - t.mv.gain
      better == cut < t.best_cut \/ (cut = t.best_cut /\ accept_equal)
  IN  [t EXCEPT !.pc = "loop", !.e = 0, !.mv = SentinelEntry,
                !.cut = cut,
                !.best_cut = IF better THEN cut ELSE @,
                !.min_cut_index = t.previously_moved + t.number_of_swaps,
                !.log = Append(@, t.mv),
                !.movements = @ + 1,
                !.number_of_swaps = @ + 1]

\* after a successful local_move_node: the cut, the best cut and the logs
accept_move(t, accept_equal) ==
  LET cut == t.cut - t.mv.gain
      better == cut < t.best_cut \/ (cut = t.best_cut /\ accept_equal)
  IN  [t EXCEPT !.pc = "loop", !.e = 0, !.mv = SentinelEntry,
                !.cut = cut,
                !.best_cut = IF better THEN cut ELSE @,
                !.min_cut_index = IF better THEN t.previously_moved + t.number_of_swaps
                                  ELSE @,
                !.log = Append(@, t.mv),
                !.movements = @ + 1,
                !.number_of_swaps = @ + 1]

\* a faulty neighbour update that inserts a vertex whatever its claim bit
update_neighbour_unclaimed(t, target) ==
  LET r == compute_gain(LocalView(t), target) IN
  IF target \in t.qn
  THEN IF r.ext_degree > 0
       THEN [t EXCEPT !.key = [@ EXCEPT ![target] = r.gain]]
       ELSE [t EXCEPT !.qn = @ \ {target}, !.key = [@ EXCEPT ![target] = 0]]
  ELSE IF r.ext_degree <= 0
       THEN t
       ELSE [t EXCEPT !.qn = @ \cup {target},
                      !.key = [@ EXCEPT ![target] = r.gain],
                      !.moved = @ \cup {target}]

\* local_move_node's loop over the out-edges of the moved node, one edge: a
\* queued neighbour gets its new key or leaves the queue, an unclaimed one with
\* external degree is claimed by compare-exchange and inserted
update_neighbour(t, target) ==
  LET r == compute_gain(LocalView(t), target) IN
  IF target \in t.qn
  THEN IF r.ext_degree > 0
       THEN [t EXCEPT !.key = [@ EXCEPT ![target] = r.gain]]
       ELSE [t EXCEPT !.qn = @ \ {target}, !.key = [@ EXCEPT ![target] = 0]]
  ELSE IF moved_idx[target] \/ r.ext_degree <= 0
       THEN t
       ELSE [t EXCEPT !.qn = @ \cup {target},
                      !.key = [@ EXCEPT ![target] = r.gain],
                      !.moved = @ \cup {target}]

NbrStep(w) ==
  LET t == td[w]
      target == Target(t.mv.node, t.e)
      t1 == [update_neighbour(t, target) EXCEPT !.e = @ + 1]
  IN
  /\ ~aborted
  /\ t.pc = "nbrs"
  /\ t.e <= Degree(t.mv.node)
  /\ moved_idx' = [moved_idx EXCEPT ![target] = @ \/ target \in t1.qn]
  /\ \E accept_equal \in BOOLEAN :
       td' = [td EXCEPT ![w] = IF t1.e > Degree(t.mv.node)
                               THEN accept_move(t1, accept_equal) ELSE t1]
  /\ UNCHANGED <<ct, app, qgr, config, shared, num_threads_finished, finished_threads, co,
                 moved_nodes, aborted, hist>>

(***************************************************************************)
(* The shared graph and boundary: commits and rollbacks of the apply phase *)
(***************************************************************************)

\* the shared mutable state as one value
Sh == [part |-> part, bw |-> blockWeight, bn |-> blockNoNodes, bnd |-> boundary]

SetSh(s) ==
  /\ part' = s.part
  /\ blockWeight' = s.bw
  /\ blockNoNodes' = s.bn
  /\ boundary' = s.bnd

\* complete_boundary::postMovedBoundaryNodeUpdates, called after the label of
\* node was set: the presence of node and of each of its neighbours in the
\* directed boundaries is recomputed under the labelling L
postMovedBoundaryNodeUpdates(bnd, L, node) ==
  LET affected == {node} \cup Neighbours(node)
  IN  [p \in DOMAIN bnd |->
         (bnd[p] \ affected) \cup
         {v \in affected : L[v] = p[1] /\ \E u \in Neighbours(v) : L[u] = p[2]}]

\* the shared state after node went from `from` to `to`
MovedState(s, node, from, to) ==
  LET w_n == getNodeWeight(node)
      L   == [s.part EXCEPT ![node] = to]
  IN  [part |-> L,
       bnd |-> postMovedBoundaryNodeUpdates(s.bnd, L, node),
       bn |-> [s.bn EXCEPT ![from] = @ - 1, ![to] = @ + 1],
       bw |-> [s.bw EXCEPT ![from] = @ - w_n, ![to] = @ + w_n]]

\* faulty variants of relaxed_move_node: without the weight check,
relaxed_move_node_unbalanced(s, node, from, to) ==
  IF s.part[node] # from
  THEN [result |-> "abort", sh |-> s]
  ELSE IF s.bn[from] = 1
  THEN [result |-> "refused", sh |-> s]
  ELSE [result |-> "moved", sh |-> MovedState(s, node, from, to)]

\* without the check of the last node of a block,
relaxed_move_node_emptying(s, node, from, to) ==
  IF s.part[node] # from
  THEN [result |-> "abort", sh |-> s]
  ELSE IF s.bw[to] + getNodeWeight(node) >= upper_bound_partition
  THEN [result |-> "refused", sh |-> s]
  ELSE [result |-> "moved", sh |-> MovedState(s, node, from, to)]

\* with the node count of the target block in place of the source block's,
relaxed_move_node_wrong_block(s, node, from, to) ==
  IF s.part[node] # from
  THEN [result |-> "abort", sh |-> s]
  ELSE IF s.bw[to] + getNodeWeight(node) >= upper_bound_partition
  THEN [result |-> "refused", sh |-> s]
  ELSE IF s.bn[to] = 1
  THEN [result |-> "refused", sh |-> s]
  ELSE [result |-> "moved", sh |-> MovedState(s, node, from, to)]

\* and with the label written before the checks
relaxed_move_node_eager(s, node, from, to) ==
  IF s.part[node] # from
  THEN [result |-> "abort", sh |-> s]
  ELSE IF s.bw[to] + getNodeWeight(node) >= upper_bound_partition
  THEN [result |-> "refused", sh |-> [s EXCEPT !.part = [@ EXCEPT ![node] = to]]]
  ELSE IF s.bn[from] = 1
  THEN [result |-> "refused", sh |-> [s EXCEPT !.part = [@ EXCEPT ![node] = to]]]
  ELSE [result |-> "moved", sh |-> MovedState(s, node, from, to)]

\* relaxed_move_node: [result, sh]; "abort" is the always-on assertion
relaxed_move_node(s, node, from, to) ==
  IF s.part[node] # from
  THEN [result |-> "abort", sh |-> s]
  ELSE IF s.bw[to] + getNodeWeight(node) >= upper_bound_partition
  THEN [result |-> "refused", sh |-> s]
  ELSE IF s.bn[from] = 1
  THEN [result |-> "refused", sh |-> s]
  ELSE [result |-> "moved", sh |-> MovedState(s, node, from, to)]

\* a faulty relaxed_move_node_back that restores the label and the boundary but
\* leaves the block aggregates as the move set them
relaxed_move_node_back_labels_only(s, node, from, to) ==
  IF s.part[node] # to
  THEN [result |-> "abort", sh |-> s]
  ELSE [result |-> "moved",
        sh |-> [MovedState(s, node, to, from) EXCEPT !.bn = s.bn, !.bw = s.bw]]

\* relaxed_move_node_back: moves node from `to` back to `from`, unchecked
relaxed_move_node_back(s, node, from, to) ==
  IF s.part[node] # to
  THEN [result |-> "abort", sh |-> s]
  ELSE [result |-> "moved", sh |-> MovedState(s, node, to, from)]

\* is_moved: recorded in moved_nodes with another owner
is_moved(mn, node, thread_id) ==
  IF mn[node] = <<>> THEN FALSE ELSE mn[node][1] # thread_id

RECURSIVE unroll_relaxed_moves_keeping_entries(_, _, _, _)
\* a faulty unroll that leaves the moved_nodes entries of the vertices it
\* moves back
unroll_relaxed_moves_keeping_entries(x, log, start, end) ==
  IF end - 1 < start \/ ~x.ok
  THEN x
  ELSE LET en == log[end]
           b  == relaxed_move_node_back(x.sh, en.node, en.from, en.to)
       IN  unroll_relaxed_moves_keeping_entries(
             [sh |-> b.sh, mn |-> x.mn, ci |-> x.ci - en.gain,
              ok |-> b.result # "abort"],
             log, start, end - 1)

RECURSIVE unroll_relaxed_moves(_, _, _, _)
\* unroll_relaxed_moves(td, moved_nodes, start, end, cut_improvement) on the
\* state x = [sh, mn, ci, ok]: log indices end-1 down to start (0-based)
unroll_relaxed_moves(x, log, start, end) ==
  IF end - 1 < start \/ ~x.ok
  THEN x
  ELSE LET en == log[end]
           b  == relaxed_move_node_back(x.sh, en.node, en.from, en.to)
       IN  unroll_relaxed_moves(
             [sh |-> b.sh,
              mn |-> [x.mn EXCEPT ![en.node] = <<>>],
              ci |-> x.ci - en.gain,
              ok |-> b.result # "abort"],
             log, start, end - 1)

(***************************************************************************)
(* The apply phase: apply_moves of the coordinator (thread 0).             *)
(***************************************************************************)

NoCall == [called |-> FALSE]

InitCo ==
  [pc |-> "explore", id |-> 0, index |-> 0, rnd |-> 1,
   min_cut_index |-> -1, next_index |-> 0, best_cut_index |-> -1,
   best_total_gain |-> 0, total_gain |-> 0,
   cut_improvement |-> 0, overall_gain |-> 0, remaining |-> 0,
   not_moved |-> {}, order |-> <<>>, reactivated_vertices |-> <<>>,
   touched_blocks |-> {}, sub |-> <<>>]

\* apply_moves(td, moved_nodes, ...) is entered for worker id
enter_apply(c, id) ==
  [c EXCEPT !.pc = "round", !.id = id, !.index = 0, !.rnd = 1,
            !.cut_improvement = 0, !.not_moved = {},
            !.order = Append(@, id)]

\* a faulty coordinator loop that counts thread 0 among the workers it waits for
leave_apply_counting_all(c) ==
  LET left == IF c.id = 0 THEN Cardinality(DOMAIN td) ELSE c.remaining - 1
  IN  [c EXCEPT !.pc = IF left > 0 THEN "wait" ELSE "returned",
                !.overall_gain = @ + c.cut_improvement,
                !.remaining = left,
                !.index = 0, !.rnd = 1, !.min_cut_index = -1, !.next_index = 0,
                !.best_cut_index = -1, !.best_total_gain = 0, !.total_gain = 0,
                !.cut_improvement = 0, !.not_moved = {}]

\* apply_moves(td, ...) returns cut_improvement to the coordinator loop, which
\* adds it up and waits for the next finished worker, or returns
leave_apply(c) ==
  LET left == IF c.id = 0 THEN Cardinality(DOMAIN td) - 1 ELSE c.remaining - 1
  IN  [c EXCEPT !.pc = IF left > 0 THEN "wait" ELSE "returned",
                !.overall_gain = @ + c.cut_improvement,
                !.remaining = left,
                !.index = 0, !.rnd = 1, !.min_cut_index = -1, !.next_index = 0,
                !.best_cut_index = -1, !.best_total_gain = 0, !.total_gain = 0,
                !.cut_improvement = 0, !.not_moved = {}]

RECURSIVE advance(_, _)
\* a faulty loop head that takes the round's sentinel for its last move
advance_through_sentinel(c, t) ==
  IF c.pc = "move"
  THEN IF c.index <= c.min_cut_index
       THEN c
       ELSE advance([c EXCEPT !.pc = "round", !.index = c.next_index + 1], t)
  ELSE IF c.index >= Len(t.log)
       THEN leave_apply(c)
       ELSE LET mc == t.min_cut_indices[c.rnd] IN
            advance([c EXCEPT !.pc = "move", !.rnd = @ + 1,
                              !.min_cut_index = mc[2], !.next_index = mc[2],
                              !.best_cut_index = c.index - 1,
                              !.best_total_gain = 0, !.total_gain = 0], t)

\* a faulty loop head that leaves the while loop before the move at
\* min_cut_index
advance_before_last(c, t) ==
  IF c.pc = "move"
  THEN IF c.index < c.min_cut_index
       THEN c
       ELSE advance([c EXCEPT !.pc = "round", !.index = c.next_index + 1], t)
  ELSE IF c.index >= Len(t.log)
       THEN leave_apply(c)
       ELSE LET mc == t.min_cut_indices[c.rnd] IN
            IF mc[1] = -1
            THEN advance([c EXCEPT !.index = mc[2] + 1, !.rnd = @ + 1], t)
            ELSE advance([c EXCEPT !.pc = "move", !.rnd = @ + 1,
                                   !.min_cut_index = mc[1], !.next_index = mc[2],
                                   !.best_cut_index = c.index - 1,
                                   !.best_total_gain = 0, !.total_gain = 0], t)

\* the heads of the for loop over the rounds of a log and of the while loop
\* over the moves of a round, up to the next log entry to apply (pc = "move")
\* or the end of the log; t is the thread data of the worker being applied
advance(c, t) ==
  IF c.pc = "move"
  THEN IF c.index <= c.min_cut_index
       THEN c
       ELSE advance([c EXCEPT !.pc = "round", !.index = c.next_index + 1], t)
  ELSE IF c.index >= Len(t.log)
       THEN leave_apply(c)
       ELSE LET mc == t.min_cut_indices[c.rnd] IN
            IF mc[1] = -1
            THEN advance([c EXCEPT !.index = mc[2] + 1, !.rnd = @ + 1], t)
            ELSE advance([c EXCEPT !.pc = "move", !.rnd = @ + 1,
                                   !.min_cut_index = mc[1], !.next_index = mc[2],
                                   !.best_cut_index = c.index - 1,
                                   !.best_total_gain = 0, !.total_gain = 0], t)

\* the record of a relaxed_move_node call: arguments, shared state before and
\* right after the call, and the result
Call(node, from, to, pre, m) ==
  [called |-> TRUE, node |-> node, from |-> from, to |-> to,
   pre |-> pre, post |-> m.sh, result |-> m.result]

\* no conflict policy has just returned / no round is being applied
NoPolicy == [kind |-> "none"]
NoSnap == [taken |-> FALSE]
NoBlock == [ended |-> FALSE]

InitHist(L) ==
  [part0 |-> L, last |-> NoCall, finished |-> <<>>, policy |-> NoPolicy,
   best |-> NoSnap, block |-> NoBlock]

\* the shared state and moved_nodes as they are when the apply loop is inside a
\* round's block (taken at the round's start and at every new best index) or
\* a policy with steps of its own is entered
Snap(c, s, mn) ==
  IF c.pc \in {"move", "gr", "ls"} THEN [taken |-> TRUE, sh |-> s, mn |-> mn]
  ELSE NoSnap

\* what the last coordinator step showed: its relaxed_move_node call, the
\* conflict policy that returned in it, the snapshot for the round it is in
Observe(last, policy, best) ==
  [hist EXCEPT !.last = last, !.policy = policy, !.best = best, !.block = NoBlock]

\* the while loop over a round's block has run to its end without a conflict:
\* the block (by the index of its sentinel) and the best index the loop holds
BlockEnd(c, best_cut_index) ==
  [ended |-> TRUE, id |-> c.id, next_index |-> c.next_index,
   min_cut_index |-> c.min_cut_index, best_cut_index |-> best_cut_index]

\* the record of a conflict policy that has returned: c, s, mn are the frame,
\* shared state and moved_nodes when the conflict was met (for the policies
\* with steps of their own: when their last step began), x the result
PolicyRecord(c, t, s, mn, x, moves, kept, gain) ==
  [kind |-> strategy, id |-> c.id,
   best_cut_index |-> c.best_cut_index, index |-> c.index,
   next_index |-> c.next_index,
   pre |-> s, pre_mn |-> mn, pre_rv |-> c.reactivated_vertices,
   post |-> x.sh, post_mn |-> x.mn, snap |-> hist.best,
   moves |-> moves, kept |-> kept, gain |-> gain]

\* what a step of the apply loop that met a conflict showed
ConflictObs(c, t, s, mn, x, last) ==
  Observe(last,
          IF x.c.pc \in {"gr", "ls"} THEN NoPolicy
          ELSE PolicyRecord(c, t, s, mn, x, <<>>, <<>>, 0),
          Snap(x.c, x.sh, x.mn))

\* std::tie(gain, movements) = apply_move_strategy_for_conflict();
\* cut_improvement += gain; break;  for the policies that finish at once
conflict_break(c, t, gain) ==
  advance([c EXCEPT !.pc = "round", !.index = c.next_index + 1,
                    !.cut_improvement = @ + gain, !.sub = <<>>], t)

\* a faulty reactivation that hands back the node alone
Reactivated_node_only(node) == <<node>>

\* the vertices REACTIVE_VERTICES hands back: the node, then its neighbours
Reactivated(node) == <<node>> \o [e \in 1..Degree(node) |-> Target(node, e)]

\* the frame of gain_recalculation(td, moved_nodes, start, end, ...)
GrFrame(start, end) ==
  [index |-> start, end |-> end, total_gain |-> 0, best_total_gain |-> 0,
   best_gain_index |-> -1, num_moves |-> 0, trans |-> <<>>]

\* the frame of local_search_from_one_node after the start node was inserted
LsFrame(start_node, gain, max_swaps) ==
  [qn |-> {start_node}, key |-> [NoKey EXCEPT ![start_node] = gain],
   moved |-> {}, trans |-> <<>>, cut |-> 0, best_cut |-> 0, min_cut_index |-> -1,
   number_of_swaps |-> 0, movements |-> 0,
   max_number_of_swaps |-> 2 * max_swaps + 100]

\* apply_move_strategy_for_conflict: unroll the round's commits past
\* best_cut_index, remember the round's unapplied vertices in not_moved, then
\* the configured policy; x = [c, sh, mn, ok]
apply_move_strategy_for_conflict(c, t, s, mn) ==
  LET u  == unroll_relaxed_moves([sh |-> s, mn |-> mn, ci |-> c.cut_improvement,
                                  ok |-> TRUE], t.log, c.best_cut_index + 1, c.index)
      nm == c.not_moved \cup
            {t.log[i + 1].node : i \in (c.best_cut_index + 1)..c.min_cut_index}
      c1 == [c EXCEPT !.cut_improvement = u.ci, !.not_moved = nm]
      start_node == t.log[c.best_cut_index + 2].node
      g  == compute_gain(u.sh.part, start_node)
      c2 == CASE strategy = "LOCAL_SEARCH" ->
                   IF g.ext_degree = 0
                   THEN conflict_break(c1, t, 0)
                   ELSE [c1 EXCEPT !.pc = "ls",
                           !.sub = LsFrame(start_node, g.gain,
                                           c.next_index - c.best_cut_index - 1)]
              [] strategy = "GAIN_RECALCULATION" ->
                   [c1 EXCEPT !.pc = "gr",
                              !.sub = GrFrame(c.best_cut_index + 1, c.next_index)]
              [] strategy = "REACTIVE_VERTICES" ->
                   conflict_break([c1 EXCEPT !.reactivated_vertices =
                                               @ \o Reactivated(start_node)], t, 0)
              [] OTHER -> conflict_break(c1, t, 0)
  IN  [c |-> c2, sh |-> u.sh, mn |-> u.mn, ok |-> u.ok]

\* the check of one neighbour in the apply loop: moved by another thread, or
\* not moved by this one, and touching the blocks of the move
NbrConflict(mn, nm, L, id, target, from, to) ==
  /\ is_moved(mn, target, id) \/ target \in nm
  /\ \/ target \in nm
     \/ L[target] = to
     \/ L[target] = from
     \/ mn[target][2] = to
     \/ mn[target][2] = from

\* moved_nodes[target] in that check default-inserts an absent key
DefaultInsert(mn, target) ==
  IF mn[target] = <<>> THEN [mn EXCEPT ![target] = <<0, 0>>] ELSE mn

\* one iteration of the while loop of apply_moves(td, moved_nodes, ...)
MoveStep ==
  LET c  == co
      t  == td[c.id]
      en == t.log[c.index + 1]
      s  == Sh
      ce == {e \in 1..Degree(en.node) :
               NbrConflict(moved_nodes, c.not_moved, part, c.id, Target(en.node, e),
                           en.from, en.to)}
      m  == relaxed_move_node(s, en.node, en.from, en.to)
  IN
  /\ ~aborted
  /\ co.pc = "move"
  /\ IF is_moved(moved_nodes, en.node, c.id)
     THEN LET x == apply_move_strategy_for_conflict(c, t, s, moved_nodes)
          IN  /\ co' = x.c /\ SetSh(x.sh) /\ moved_nodes' = x.mn
              /\ aborted' = ~x.ok
              /\ hist' = ConflictObs(c, t, s, moved_nodes, x, NoCall)
     ELSE IF ce # {}
     THEN LET e1 == CHOOSE e \in ce : \A f \in ce : e <= f
              mn == DefaultInsert(moved_nodes, Target(en.node, e1))
              x  == apply_move_strategy_for_conflict(c, t, s, mn)
          IN  /\ co' = x.c /\ SetSh(x.sh) /\ moved_nodes' = x.mn
              /\ aborted' = ~x.ok
              /\ hist' = ConflictObs(c, t, s, mn, x, NoCall)
     ELSE CASE m.result = "abort" ->
                 /\ aborted' = TRUE
                 /\ UNCHANGED <<co, shared, moved_nodes, hist>>
            [] m.result = "refused" ->
                 LET x == apply_move_strategy_for_conflict(c, t, s, moved_nodes)
                 IN  /\ co' = x.c /\ SetSh(x.sh) /\ moved_nodes' = x.mn
                     /\ aborted' = ~x.ok
                     /\ hist' = ConflictObs(c, t, s, moved_nodes, x,
                                             Call(en.node, en.from, en.to, s, m))
            [] m.result = "moved" ->
                 /\ SetSh(m.sh)
                 /\ moved_nodes' = [moved_nodes EXCEPT ![en.node] = <<c.id, en.from>>]
                 /\ aborted' = aborted
                 /\ \E bit \in BOOLEAN :
                      LET total == c.total_gain + en.gain
                          best  == total > c.best_total_gain \/
                                   (total = c.best_total_gain /\ bit)
                      IN  \E c1 \in {advance(
                            [c EXCEPT !.touched_blocks = @ \cup {en.from, en.to},
                                      !.cut_improvement = @ + en.gain,
                                      !.total_gain = total,
                                      !.best_total_gain = IF best THEN total ELSE @,
                                      !.best_cut_index = IF best THEN c.index ELSE @,
                                      !.index = @ + 1], t)} :
                            /\ co' = c1
                            /\ hist' = [Observe(Call(en.node, en.from, en.to, s, m),
                                               NoPolicy,
                                               IF c1.pc = "move" /\
                                                  c1.next_index = c.next_index /\ ~best
                                               THEN hist.best
                                               ELSE Snap(c1, m.sh,
                                                         [moved_nodes EXCEPT
                                                            ![en.node] = <<c.id, en.from>>]))
                                         EXCEPT !.block =
                                           IF c1.pc = "move" /\
                                              c1.next_index = c.next_index
                                           THEN NoBlock
                                           ELSE BlockEnd(c, IF best THEN c.index
                                                            ELSE c.best_cut_index)]
  /\ UNCHANGED <<ct, app, qgr, config, moved_idx, num_threads_finished, finished_threads, td>>

\* a faulty roll-back that keeps every transposition
roll_back_nothing(x, keep, n) == x

RECURSIVE roll_back(_, _, _)
\* the roll-back loops of gain_recalculation and local_search_from_one_node:
\* pop the local transpositions beyond index `keep` (0-based), last first;
\* x = [sh, trans, ok]
roll_back(x, keep, n) ==
  IF n <= keep \/ ~x.ok
  THEN x
  ELSE LET en == x.trans[Len(x.trans)]
           b  == relaxed_move_node_back(x.sh, en.node, en.from, en.to)
       IN  roll_back([sh |-> b.sh, trans |-> SubSeq(x.trans, 1, Len(x.trans) - 1),
                      ok |-> b.result # "abort"], keep, n - 1)

\* the kept vertices become "moved for all threads" with their original block
MarkMoved(mn, trans) ==
  [v \in Nodes |->
     IF \E i \in 1..Len(trans) : trans[i].node = v
     THEN <<AllThreads,
            trans[CHOOSE i \in 1..Len(trans) :
                    trans[i].node = v /\ \A j \in 1..Len(trans) :
                                           trans[j].node = v => j <= i].from>>
     ELSE mn[v]]

Touched(trans) ==
  {trans[i].from : i \in 1..Len(trans)} \cup {trans[i].to : i \in 1..Len(trans)}

\* gain_recalculation: one iteration of its loop over the remaining log
\* entries and, after the last one, its roll-back and bookkeeping
GRStep ==
  LET c    == co
      t    == td[c.id]
      g    == c.sub
      node == t.log[g.index + 1].node
      from == part[node]
      r    == compute_gain(part, node)
      m    == relaxed_move_node(Sh, node, from, r.to)
      moved == r.to # INVALID_PARTITION /\ m.result = "moved"
      s1   == IF moved THEN m.sh ELSE Sh
  IN
  /\ ~aborted
  /\ co.pc = "gr"
  /\ \E accept_equal \in BOOLEAN :
       LET total == IF moved THEN g.total_gain + r.gain ELSE g.total_gain
           best  == moved /\ (total > g.best_total_gain \/
                              (total = g.best_total_gain /\ accept_equal))
           g1 == [g EXCEPT
                    !.index = @ + 1,
                    !.total_gain = total,
                    !.best_total_gain = IF best THEN total ELSE @,
                    !.best_gain_index = IF best THEN g.num_moves ELSE @,
                    !.trans = IF moved
                              THEN Append(@, [node |-> node, from |-> from, to |-> r.to,
                                              gain |-> r.gain])
                              ELSE @,
                    !.num_moves = IF moved THEN @ + 1 ELSE @]
           last == IF r.to = INVALID_PARTITION THEN NoCall
                   ELSE Call(node, from, r.to, Sh, m)
       IN  IF g1.index < g1.end
           THEN /\ co' = [c EXCEPT !.sub = g1]
                /\ SetSh(s1)
                /\ hist' = Observe(last, NoPolicy, hist.best)
                /\ UNCHANGED <<moved_nodes, aborted>>
           ELSE \E b \in {roll_back([sh |-> s1, trans |-> g1.trans, ok |-> TRUE],
                                     g1.best_gain_index, g1.num_moves - 1)} :
                \E x \in {[c  |-> conflict_break(
                                    [c EXCEPT !.touched_blocks = @ \cup Touched(b.trans)],
                                    t, g1.best_total_gain),
                           sh |-> b.sh, mn |-> MarkMoved(moved_nodes, b.trans)]} :
                    /\ SetSh(x.sh)
                    /\ moved_nodes' = x.mn
                    /\ aborted' = ~b.ok
                    /\ co' = x.c
                    /\ hist' = Observe(last,
                                       PolicyRecord(c, t, Sh, moved_nodes, x, g1.trans,
                                                    b.trans, g1.best_total_gain),
                                       Snap(x.c, x.sh, x.mn))
  /\ UNCHANGED <<ct, app, qgr, config, moved_idx, num_threads_finished, finished_threads, td>>

\* move_node's update of the neighbours' keys in the local search queue
ls_update_neighbours(l, L, node) ==
  LET N    == Neighbours(node)
      ext  == {u \in N : compute_gain(L, u).ext_degree > 0}
      ins  == {u \in ext \ l.qn : u \notin l.moved}
      qn   == (l.qn \ (N \ ext)) \cup ins
  IN  [l EXCEPT !.qn = qn,
                !.key = [v \in Nodes |-> IF v \in qn /\ v \in N
                                         THEN compute_gain(L, v).gain
                                         ELSE IF v \in qn THEN l.key[v] ELSE 0],
                !.moved = @ \cup ins]

\* local_search_from_one_node: one iteration of its loop, or the end of the
\* loop with the roll-back and the bookkeeping loop over the kept
\* transpositions, which never ends once a transposition was kept
LSStep ==
  LET c == co
      t == td[c.id]
      l == c.sub
  IN
  /\ ~aborted
  /\ co.pc = "ls"
  /\ \/ /\ l.movements < l.max_number_of_swaps
        /\ l.qn # {}
        /\ \E node \in l.qn :
             /\ \A u \in l.qn : l.key[u] <= l.key[node]
             /\ LET from == part[node]
                    r    == compute_gain(part, node)
                    m    == relaxed_move_node(Sh, node, from, r.to)
                    q    == [l EXCEPT !.qn = @ \ {node}, !.key = [@ EXCEPT ![node] = 0]]
                IN  IF r.to = INVALID_PARTITION
                    THEN /\ aborted' = TRUE
                         /\ UNCHANGED <<co, shared, moved_nodes, hist>>
                    ELSE /\ hist' = Observe(Call(node, from, r.to, Sh, m), NoPolicy,
                                            hist.best)
                         /\ UNCHANGED <<moved_nodes, aborted>>
                         /\ SetSh(m.sh)
                         /\ IF m.result # "moved"
                            THEN co' = [c EXCEPT !.sub = [q EXCEPT !.movements = @ + 1]]
                            ELSE \E accept_equal \in BOOLEAN :
                                   LET cut == l.cut - l.key[node]
                                       better == cut < l.best_cut \/
                                                 (cut = l.best_cut /\ accept_equal)
                                       q1 == ls_update_neighbours(q, m.sh.part, node)
                                   IN  co' = [c EXCEPT !.sub = [q1 EXCEPT
                                         !.cut = cut,
                                         !.best_cut = IF better THEN cut ELSE @,
                                         !.min_cut_index = IF better THEN l.number_of_swaps
                                                           ELSE @,
                                         !.trans = Append(@, [node |-> node, from |-> from,
                                                              to |-> r.to]),
                                         !.movements = @ + 1,
                                         !.number_of_swaps = @ + 1]]
     \/ /\ \E b \in {roll_back([sh |-> Sh, trans |-> l.trans, ok |-> TRUE],
                                l.min_cut_index, l.number_of_swaps - 1)} :
           \E x \in {[c |-> conflict_break(c, t, 0 - l.best_cut), sh |-> b.sh,
                      mn |-> moved_nodes]} :
               /\ SetSh(x.sh)
               /\ aborted' = (~b.ok \/ b.trans # <<>>)
               /\ co' = x.c
               /\ hist' = Observe(NoCall,
                                  PolicyRecord(c, t, Sh, moved_nodes, x, l.trans, b.trans,
                                               0 - l.best_cut),
                                  Snap(x.c, x.sh, x.mn))
        /\ UNCHANGED moved_nodes
  /\ UNCHANGED <<ct, app, qgr, config, moved_idx, num_threads_finished, finished_threads, td>>

\* the worker's task ends: it signals early termination to the others; a pool
\* worker enqueues its id for the coordinator, thread 0 goes on to apply_moves
\* and applies its own log first
FinishExplore(w) ==
  /\ ~aborted
  /\ td[w].pc = "idle"
  /\ td' = [td EXCEPT ![w].pc = "finished", ![w].stop = "none"]
  /\ num_threads_finished' = num_threads_finished + 1
  /\ finished_threads' = IF w > 0 THEN Append(finished_threads, w) ELSE finished_threads
  /\ hist' = [hist EXCEPT !.finished = IF w > 0 THEN Append(@, w) ELSE @,
                          !.best = IF w = 0
                                   THEN Snap(advance(enter_apply(co, 0), td[0]), Sh,
                                             moved_nodes)
                                   ELSE @]
  /\ IF w = 0
     THEN /\ co' = advance(enter_apply(co, 0), td[0])
          /\ IF strategy = "unread"
             THEN \E st \in Strategies :
                    config' = [config EXCEPT !.apply_move_strategy = st]
             ELSE UNCHANGED config
     ELSE UNCHANGED <<co, config>>
  /\ UNCHANGED <<ct, app, qgr, shared, moved_idx, moved_nodes, aborted>>

Explore(w) ==
  \/ \E v \in Nodes, last \in BOOLEAN : RoundStart(w, v, last)
  \/ LoopHead(w)
  \/ Pop(w)
  \/ NbrStep(w)
  \/ FinishExplore(w)

\* a faulty try_pop that yields the id enqueued last
try_pop_newest(q) == q[Len(q)]

\* finished_threads.try_pop(id) on a non-empty queue: the id it yields
try_pop(q) == Head(q)

\* the coordinator polls finished_threads (try_pop), joins the worker's future
\* and applies its log
WaitStep ==
  /\ ~aborted
  /\ co.pc = "wait"
  /\ finished_threads # <<>>
  /\ finished_threads' = [i \in 1..(Len(finished_threads) - 1) |->
                            LET k == CHOOSE j \in 1..Len(finished_threads) :
                                       finished_threads[j] = try_pop(finished_threads)
                            IN  IF i < k THEN finished_threads[i]
                                ELSE finished_threads[i + 1]]
  /\ co' = advance(enter_apply(co, try_pop(finished_threads)),
                   td[try_pop(finished_threads)])
  /\ hist' = Observe(NoCall, NoPolicy,
                     Snap(advance(enter_apply(co, try_pop(finished_threads)),
                                  td[try_pop(finished_threads)]), Sh, moved_nodes))
  /\ UNCHANGED <<ct, app, qgr, config, shared, moved_idx, num_threads_finished, td, moved_nodes,
                 aborted>>

\* the partitions a batch may start from: no empty block, no block over W_max
\* (the block names are interchangeable: vertex 0 starts in block 0)
InitialPartitions ==
  {L \in [Nodes -> Blocks] :
     /\ L[0] = 0
     /\ \A b \in Blocks : SizeOf(L, b) >= 1 /\ WeightOf(L, b) <= upper_bound_partition}

Init ==
  /\ config = [upper_bound_partition |-> TightUpperBound,
               apply_move_strategy |-> "unread"]
  /\ part \in InitialPartitions
  /\ blockWeight = [b \in Blocks |-> WeightOf(part, b)]
  /\ blockNoNodes = [b \in Blocks |-> SizeOf(part, b)]
  /\ boundary = BoundaryOf(part)
  /\ moved_idx = [v \in Nodes |-> FALSE]
  /\ num_threads_finished = 0
  /\ finished_threads = <<>>
  /\ td = [w \in Workers |-> InitThreadData(part)]
  /\ co = InitCo
  /\ moved_nodes = [v \in Nodes |-> <<>>]
  /\ aborted = FALSE
  /\ hist = InitHist(part)
  /\ ct = CtOff
  /\ app = AppOff
  /\ qgr = QgrOff

Next ==
  \/ \E w \in Workers : Explore(w)
  \/ WaitStep
  \/ MoveStep
  \/ GRStep
  \/ LSStep

Spec == Init /\ [][Next]_vars

(***************************************************************************)
(* The same batch on a pool of three threads under the SKIP policy, every  *)
(* worker with one round: the order in which the coordinator takes the     *)
(* logs of the pool workers.                                               *)
(***************************************************************************)
PoolWorkers == 0..2

InitPool ==
  /\ config = [upper_bound_partition |-> TightUpperBound,
               apply_move_strategy |-> "SKIP"]
  /\ part \in InitialPartitions
  /\ blockWeight = [b \in Blocks |-> WeightOf(part, b)]
  /\ blockNoNodes = [b \in Blocks |-> SizeOf(part, b)]
  /\ boundary = BoundaryOf(part)
  /\ moved_idx = [v \in Nodes |-> FALSE]
  /\ num_threads_finished = 0
  /\ finished_threads = <<>>
  /\ td = [w \in PoolWorkers |-> [InitThreadData(part) EXCEPT !.rounds = MaxRounds - 1]]
  /\ co = InitCo
  /\ moved_nodes = [v \in Nodes |-> <<>>]
  /\ aborted = FALSE
  /\ hist = InitHist(part)
  /\ ct = CtOff
  /\ app = AppOff
  /\ qgr = QgrOff

NextPool ==
  \/ \E w \in PoolWorkers : Explore(w)
  \/ WaitStep
  \/ MoveStep

SpecPool == InitPool /\ [][NextPool]_vars

\* worker w's task has a step to take: it has not ended and no assertion has
\* stopped the program (ENABLED <<Explore(w)>>_vars in closed form: at every
\* position of the task one of RoundStart, LoopHead, Pop, NbrStep and
\* FinishExplore can be taken)
Runnable(w) == ~aborted /\ td[w].pc # "finished"

\* the same pool when every thread keeps being scheduled: the coordinator's
\* loop (weak fairness of its two steps) and every worker's task (weak
\* fairness of Explore(w), written out with Runnable(w) for its enabling
\* condition)
SpecPoolFair ==
  /\ InitPool
  /\ [][NextPool]_vars
  /\ WF_vars(WaitStep)
  /\ WF_vars(MoveStep)
  /\ \A w \in PoolWorkers : []<>(~Runnable(w)) \/ []<><<Explore(w)>>_vars

(***************************************************************************)
(* The batch of two threads under an upper bound that never binds, every   *)
(* worker with one round: only the check of the last node of a block       *)
(* refuses a commit.                                                       *)
(***************************************************************************)
InitLoose ==
  /\ config = [upper_bound_partition |-> LooseUpperBound,
               apply_move_strategy |-> "unread"]
  /\ part \in InitialPartitions
  /\ blockWeight = [b \in Blocks |-> WeightOf(part, b)]
  /\ blockNoNodes = [b \in Blocks |-> SizeOf(part, b)]
  /\ boundary = BoundaryOf(part)
  /\ moved_idx = [v \in Nodes |-> FALSE]
  /\ num_threads_finished = 0
  /\ finished_threads = <<>>
  /\ td = [w \in Workers |-> [InitThreadData(part) EXCEPT !.rounds = MaxRounds - 1]]
  /\ co = InitCo
  /\ moved_nodes = [v \in Nodes |-> <<>>]
  /\ aborted = FALSE
  /\ hist = InitHist(part)
  /\ ct = CtOff
  /\ app = AppOff
  /\ qgr = QgrOff

SpecLoose == InitLoose /\ [][Next]_vars

(***************************************************************************)
(* The cluster contractor (contraction.cpp): the three clustering          *)
(* variants, run one after the other on the same fine graph and the same   *)
(* cluster map.                                                            *)
(***************************************************************************)

\* the fine graph G: four vertices on a cycle, every arc stored with its
\* reverse arc of the same weight
CNodes == 0..3

COut ==
  [n \in CNodes |->
     CASE n = 0 -> <<[target |-> 1, weight |-> 1], [target |-> 3, weight |-> 3]>>
       [] n = 1 -> <<[target |-> 0, weight |-> 1], [target |-> 2, weight |-> 2]>>
       [] n = 2 -> <<[target |-> 1, weight |-> 2], [target |-> 3, weight |-> 1]>>
       [] n = 3 -> <<[target |-> 2, weight |-> 1], [target |-> 0, weight |-> 3]>>]

\* G.getNodeWeight(node) of the fine graph
CNodeWeight(n) == n + 1

\* the threads that run the parallel variants (the caller and the pool)
CWorkers == 0..1
num_threads == Cardinality(CWorkers)

\* uint32_t block_size: the vertices a worker takes with one fetch_add
block_size == 1

\* the largest no_of_coarse_vertices of a cluster map
MaxClusters == 3

\* coarse_mapping: the cluster of every fine vertex, clusters 0..n_coarse-1
ClusterMaps ==
  {cm \in [CNodes -> 0..(MaxClusters - 1)] :
     \E nc \in 2..MaxClusters : {cm[n] : n \in CNodes} = 0..(nc - 1)}

Clusters == 0..(ct.no_of_coarse_vertices - 1)

\* two cluster ids packed into one key, the first id in the upper half
KeyRadix == 65536

get_uint64_from_pair_unsorted(a, b) == a * KeyRadix + b

get_uint64_from_pair_sorted(a, b) ==
  IF a < b THEN get_uint64_from_pair_unsorted(a, b)
  ELSE get_uint64_from_pair_unsorted(b, a)

get_pair_from_uint64(key) == <<key \div KeyRadix, key % KeyRadix>>

\* handle.insertOrUpdate(key, w, lhs += rhs, w), one atomic operation on a
\* table (a function from the keys it holds to their values)
insertOrUpdate(tbl, key, w) ==
  [k \in DOMAIN tbl \cup {key} |->
     IF k = key THEN (IF key \in DOMAIN tbl THEN tbl[key] + w ELSE w)
     ELSE tbl[k]]

EmptyTable == [k \in {} |-> 0]

\* a faulty cut test that takes every arc for a cut edge
is_cut_edge_always(source_cluster, target_cluster) == TRUE

\* bool is_cut_edge = source_cluster != target_cluster
is_cut_edge(source_cluster, target_cluster) == source_cluster # target_cluster

\* a faulty key of the sharded variant: the sorted one
sharded_key_sorted(source_cluster, target_cluster) ==
  get_uint64_from_pair_sorted(source_cluster, target_cluster)

\* a faulty key of the sharded variant: target first
sharded_key_reversed(source_cluster, target_cluster) ==
  get_uint64_from_pair_unsorted(target_cluster, source_cluster)

\* the key of the sharded variant
sharded_key(source_cluster, target_cluster) ==
  get_uint64_from_pair_unsorted(source_cluster, target_cluster)

\* a faulty materialization that takes the aggregate as it is
materialized_weight_unhalved(aggregate) == aggregate

\* auto edge_weight = (*it).second / 2: an aggregate under a sorted key holds
\* both directions
materialized_weight(aggregate) == aggregate \div 2

\* the order in which the variants are run
VariantOrder == <<"single", "sharded", "sequential">>

\* a worker before its task: my_block_infos(no_of_coarse_vertices)
InitCWorker(nc, pc) ==
  [pc |-> pc, node |-> 0, begin |-> 0, end |-> 0, e |-> 0, visited |-> <<>>,
   my_block_infos |-> [c \in 0..(nc - 1) |-> 0], key |-> -1, tmp |-> 0]

\* the state when variant number i starts on cluster map cm
StartVariant(cm, nc, i, results, partitioned) ==
  [variant |-> VariantOrder[i], vi |-> i, phase |-> "aggregate",
   graph_allready_partitioned |-> partitioned,
   coarse_mapping |-> cm, no_of_coarse_vertices |-> nc,
   offset |-> 0,
   wk |-> [w \in CWorkers |->
             InitCWorker(nc, IF VariantOrder[i] = "sequential" /\ w > 0
                             THEN "done" ELSE "grab")],
   new_edges |-> [t \in CWorkers |-> EmptyTable],
   todo |-> [t \in CWorkers |-> {}],
   block_infos |-> [c \in 0..(nc - 1) |-> 0],
   building_tool |-> [c \in 0..(nc - 1) |-> <<>>],
   offsets |-> [c \in 0..(nc - 1) |-> 0],
   firstEdge |-> [c \in 0..nc |-> 0],
   edges |-> <<>>, edge_writes |-> <<>>, num_edges |-> 0,
   coarser |-> [weight |-> <<>>, adj |-> <<>>, partition_index |-> <<>>],
   results |-> results]

RECURSIVE EnterNode(_, _, _)
\* the head of `for (NodeID node = begin; node != end; ++node)` and the body
\* up to the node's first out-edge; k is the worker
EnterNode(k, cm, node) ==
  IF node = k.end
  THEN [k EXCEPT !.pc = "grab"]
  ELSE LET k1 == [k EXCEPT !.node = node, !.visited = Append(@, node),
                           !.my_block_infos[cm[node]] = @ + CNodeWeight(node)]
       IN  IF Len(COut[node]) = 0
           THEN EnterNode(k1, cm, node + 1)
           ELSE [k1 EXCEPT !.pc = "edge", !.e = 1]

\* a faulty grab whose block reaches one vertex into the next block
CGrab_overlapping(w) ==
  /\ ct.variant # "off" /\ ct.phase = "aggregate"
  /\ ct.wk[w].pc = "grab"
  /\ LET n     == Cardinality(CNodes)
         size  == IF ct.variant = "sequential" THEN n ELSE block_size
         begin == ct.offset
         end   == IF begin + size + 1 <= n THEN begin + size + 1 ELSE n
     IN  ct' = [ct EXCEPT
                  !.offset = begin + size,
                  !.wk[w] = IF begin >= n
                            THEN [@ EXCEPT !.pc = "done", !.begin = begin]
                            ELSE EnterNode([@ EXCEPT !.begin = begin, !.end = end],
                                           ct.coarse_mapping, begin)]

\* offset.fetch_add(block_size): the worker takes its next block, or leaves
\* its loop when the cursor has passed the last vertex; the sequential
\* variant walks all vertices in one go (forall_nodes)
CGrab(w) ==
  /\ ct.variant # "off" /\ ct.phase = "aggregate"
  /\ ct.wk[w].pc = "grab"
  /\ LET n     == Cardinality(CNodes)
         size  == IF ct.variant = "sequential" THEN n ELSE block_size
         begin == ct.offset
         end   == IF begin + size <= n THEN begin + size ELSE n
     IN  ct' = [ct EXCEPT
                  !.offset = begin + size,
                  !.wk[w] = IF begin >= n
                            THEN [@ EXCEPT !.pc = "done", !.begin = begin]
                            ELSE EnterNode([@ EXCEPT !.begin = begin, !.end = end],
                                           ct.coarse_mapping, begin)]

\* one out-edge of the worker's node: a cut edge is added to the table
CEdge(w) ==
  /\ ct.variant # "off" /\ ct.phase = "aggregate"
  /\ ct.wk[w].pc = "edge"
  /\ LET k   == ct.wk[w]
         arc == COut[k.node][k.e]
         source_cluster == ct.coarse_mapping[k.node]
         target_cluster == ct.coarse_mapping[arc.target]
         key == IF ct.variant = "sharded"
                THEN sharded_key(source_cluster, target_cluster)
                ELSE get_uint64_from_pair_sorted(source_cluster, target_cluster)
         ht  == IF ct.variant = "sharded" THEN source_cluster % num_threads ELSE 0
     IN  ct' = [ct EXCEPT
                  !.new_edges[ht] =
                     IF is_cut_edge(source_cluster, target_cluster)
                     THEN insertOrUpdate(@, key, arc.weight) ELSE @,
                  !.wk[w] = IF k.e < Len(COut[k.node])
                            THEN [k EXCEPT !.e = @ + 1]
                            ELSE EnterNode(k, ct.coarse_mapping, k.node + 1)]

\* a faulty reduction that takes the caller's weights alone
reduce_block_infos_first_only(wk, c) == wk[0].my_block_infos[c]

\* block_infos[i] += cur_block_infos[i] over the workers' results
reduce_block_infos(wk, c) ==
  SumOver([w \in CWorkers |-> wk[w].my_block_infos[c]], CWorkers)

\* the position of a thread that iterates over its table: at an entry or done
IterPc(remaining, more, finished) == IF remaining = {} THEN finished ELSE more

\* all workers have returned: their node weights are added up and the tables
\* are handed to the construction
CReduce ==
  /\ ct.variant # "off" /\ ct.phase = "aggregate"
  /\ \A w \in CWorkers : ct.wk[w].pc = "done"
  /\ ct' = [ct EXCEPT
              !.block_infos = [c \in DOMAIN @ |-> reduce_block_infos(ct.wk, c)],
              !.phase = IF ct.variant = "sharded" THEN "count" ELSE "materialize",
              !.todo = [t \in CWorkers |-> DOMAIN ct.new_edges[t]],
              !.wk = [w \in CWorkers |->
                        [ct.wk[w] EXCEPT
                           !.begin = 0, !.visited = <<>>,
                           !.pc = IterPc(DOMAIN ct.new_edges[w], "count", "counted")]]]

\* single map and sequential variant: one entry of the table becomes two
\* arcs of building_tool (the table is iterated in an unspecified order)
CMaterialize ==
  /\ ct.variant # "off" /\ ct.phase = "materialize"
  /\ \E key \in ct.todo[0] :
       LET edge == get_pair_from_uint64(key)
           edge_weight == materialized_weight(ct.new_edges[0][key])
       IN  ct' = [ct EXCEPT
                    !.building_tool =
                       [c \in DOMAIN @ |->
                          IF c = edge[1] /\ c = edge[2]
                          THEN @[c] \o <<[target |-> edge[2], weight |-> edge_weight],
                                         [target |-> edge[1], weight |-> edge_weight]>>
                          ELSE IF c = edge[1]
                          THEN Append(@[c], [target |-> edge[2], weight |-> edge_weight])
                          ELSE IF c = edge[2]
                          THEN Append(@[c], [target |-> edge[1], weight |-> edge_weight])
                          ELSE @[c]],
                    !.num_edges = @ + 1,
                    !.todo[0] = @ \ {key}]

\* a faulty labelling that keeps the label of the first fine vertex
setPartitionIndex_first(cm, labels) ==
  [c \in {cm[n] : n \in CNodes} |->
     labels[CHOOSE n \in CNodes : cm[n] = c /\ \A m \in CNodes : cm[m] = c => n <= m]]

\* forall_nodes(G, node) coarser.setPartitionIndex(coarse_mapping[node],
\* G.getPartitionIndex(node)): every coarse vertex ends with the label of the
\* last fine vertex of its cluster
setPartitionIndex_forall(cm, labels) ==
  [c \in {cm[n] : n \in CNodes} |->
     labels[CHOOSE n \in CNodes : cm[n] = c /\ \A m \in CNodes : cm[m] = c => m <= n]]

\* coarser.start_construction ... finish_construction from building_tool,
\* and the loop that labels the coarse vertices
CConstruct ==
  /\ ct.variant # "off" /\ ct.phase = "materialize"
  /\ ct.todo[0] = {}
  /\ ct' = [ct EXCEPT !.phase = "built",
                      !.coarser = [weight |-> ct.block_infos,
                                   adj |-> ct.building_tool,
                                   partition_index |->
                                      setPartitionIndex_forall(ct.coarse_mapping, part)]]

\* task1, first half of ++offsets[edge.first]: the thread reads the counter
\* of the source of the next entry of its own table
CCountRead(t) ==
  /\ ct.variant # "off" /\ ct.phase = "count"
  /\ ct.wk[t].pc = "count"
  /\ \E key \in ct.todo[t] :
       ct' = [ct EXCEPT !.wk[t].pc = "count_w", !.wk[t].key = key,
                        !.wk[t].tmp = ct.offsets[get_pair_from_uint64(key)[1]]]

\* task1, second half: the thread writes the counter back
CCountWrite(t) ==
  /\ ct.variant # "off" /\ ct.phase = "count"
  /\ ct.wk[t].pc = "count_w"
  /\ LET k == ct.wk[t] IN
     ct' = [ct EXCEPT
              !.offsets[get_pair_from_uint64(k.key)[1]] = k.tmp + 1,
              !.num_edges = @ + 1,
              !.todo[t] = @ \ {k.key},
              !.wk[t].pc = IterPc(ct.todo[t] \ {k.key}, "count", "counted")]

\* a faulty prefix sum that includes the vertex's own count
PrefixSum_inclusive(offsets, c) == SumOver(offsets, {d \in DOMAIN offsets : d <= c})

\* the exclusive prefix sum over offsets: every coarse vertex gets its range
PrefixSum(offsets, c) == SumOver(offsets, {d \in DOMAIN offsets : d < c})

CPrefix ==
  /\ ct.variant # "off" /\ ct.phase = "count"
  /\ \A t \in CWorkers : ct.wk[t].pc = "counted"
  /\ ct' = [ct EXCEPT
              !.phase = "scatter",
              !.firstEdge = [c \in DOMAIN @ |-> PrefixSum(ct.offsets, c)],
              !.offsets = [c \in DOMAIN @ |-> PrefixSum(ct.offsets, c)],
              !.edges = [i \in 1..ct.num_edges |-> [target |-> -1, weight |-> 0]],
              !.edge_writes = [i \in 1..ct.num_edges |-> 0],
              !.todo = [t \in CWorkers |-> DOMAIN ct.new_edges[t]],
              !.wk = [w \in CWorkers |->
                        [ct.wk[w] EXCEPT
                           !.pc = IterPc(DOMAIN ct.new_edges[w], "scatter",
                                         "scattered")]]]

\* task2: the thread writes the next entry of its table into the slot its
\* source's cursor names
CScatterWrite(t) ==
  /\ ct.variant # "off" /\ ct.phase = "scatter"
  /\ ct.wk[t].pc = "scatter"
  /\ \E key \in ct.todo[t] :
       LET edge == get_pair_from_uint64(key)
           pos  == ct.offsets[edge[1]]
       IN  ct' = [ct EXCEPT
                    !.edges[pos + 1] = [target |-> edge[2],
                                        weight |-> ct.new_edges[t][key]],
                    !.edge_writes[pos + 1] = @ + 1,
                    !.wk[t].pc = "scatter_w", !.wk[t].key = key,
                    !.wk[t].tmp = pos]

\* task2: ++offsets[edge.first]
CScatterAdvance(t) ==
  /\ ct.variant # "off" /\ ct.phase = "scatter"
  /\ ct.wk[t].pc = "scatter_w"
  /\ LET k == ct.wk[t] IN
     ct' = [ct EXCEPT
              !.offsets[get_pair_from_uint64(k.key)[1]] = k.tmp + 1,
              !.todo[t] = @ \ {k.key},
              !.wk[t].pc = IterPc(ct.todo[t] \ {k.key}, "scatter", "scattered")]

\* coarser.start_construction(nodes, edges) and
\* ALWAYS_ASSERT(!partition_config.graph_allready_partitioned); no coarse
\* vertex is labelled (the loop that did it is commented out)
CStartConstruction ==
  /\ ct.variant # "off" /\ ct.phase = "scatter"
  /\ \A t \in CWorkers : ct.wk[t].pc = "scattered"
  /\ ct' = [ct EXCEPT
              !.phase = IF ct.graph_allready_partitioned THEN "aborted" ELSE "built",
              !.coarser =
                 [weight |-> ct.block_infos,
                  adj |-> [c \in DOMAIN ct.block_infos |->
                             SubSeq(ct.edges, ct.firstEdge[c] + 1,
                                    ct.firstEdge[c + 1])],
                  partition_index |-> <<>>]]

\* the arcs of a coarse vertex without their order: how often each occurs
ArcBag(arcs) ==
  [x \in {arcs[i] : i \in 1..Len(arcs)} |->
     Cardinality({i \in 1..Len(arcs) : arcs[i] = x})]

\* a coarse graph up to the order of the arcs inside a vertex's range
Summary(coarser) ==
  [weight |-> coarser.weight,
   arcs |-> [c \in DOMAIN coarser.adj |-> ArcBag(coarser.adj[c])]]

\* the variant has returned; the next one starts on the same input
CNextVariant ==
  /\ ct.variant # "off" /\ ct.phase = "built"
  /\ LET results == ct.results @@ (ct.variant :> Summary(ct.coarser)) IN
     IF ct.vi < Len(VariantOrder)
     THEN ct' = StartVariant(ct.coarse_mapping, ct.no_of_coarse_vertices,
                             ct.vi + 1, results, ct.graph_allready_partitioned)
     ELSE ct' = [ct EXCEPT !.phase = "finished", !.results = results]

\* the refinement is at rest while the contractor runs
InitContract ==
  /\ config = [upper_bound_partition |-> TightUpperBound,
               apply_move_strategy |-> "SKIP"]
  /\ part = [v \in Nodes |-> IF v < 2 THEN 0 ELSE 1]
  /\ blockWeight = [b \in Blocks |-> WeightOf(part, b)]
  /\ blockNoNodes = [b \in Blocks |-> SizeOf(part, b)]
  /\ boundary = BoundaryOf(part)
  /\ moved_idx = [v \in Nodes |-> FALSE]
  /\ num_threads_finished = 0
  /\ finished_threads = <<>>
  /\ td = [w \in Workers |-> InitThreadData(part)]
  /\ co = InitCo
  /\ moved_nodes = [v \in Nodes |-> <<>>]
  /\ aborted = FALSE
  /\ hist = InitHist(part)
  /\ \E cm \in ClusterMaps, partitioned \in BOOLEAN :
       ct = StartVariant(cm, Cardinality({cm[n] : n \in CNodes}), 1,
                         [v \in {} |-> 0], partitioned)
  /\ app = AppOff
  /\ qgr = QgrOff

refinement ==
  <<config, part, blockWeight, blockNoNodes, boundary, moved_idx,
    num_threads_finished, finished_threads, td, co, moved_nodes, aborted, hist>>

NextContract ==
  \/ \E w \in CWorkers : CGrab(w) /\ UNCHANGED <<refinement, app, qgr>>
  \/ \E w \in CWorkers : CEdge(w) /\ UNCHANGED <<refinement, app, qgr>>
  \/ CReduce /\ UNCHANGED <<refinement, app, qgr>>
  \/ CMaterialize /\ UNCHANGED <<refinement, app, qgr>>
  \/ CConstruct /\ UNCHANGED <<refinement, app, qgr>>
  \/ \E t \in CWorkers : CCountRead(t) /\ UNCHANGED <<refinement, app, qgr>>
  \/ \E t \in CWorkers : CCountWrite(t) /\ UNCHANGED <<refinement, app, qgr>>
  \/ CPrefix /\ UNCHANGED <<refinement, app, qgr>>
  \/ \E t \in CWorkers : CScatterWrite(t) /\ UNCHANGED <<refinement, app, qgr>>
  \/ \E t \in CWorkers : CScatterAdvance(t) /\ UNCHANGED <<refinement, app, qgr>>
  \/ CStartConstruction /\ UNCHANGED <<refinement, app, qgr>>
  \/ CNextVariant /\ UNCHANGED <<refinement, app, qgr>>

SpecContract == InitContract /\ [][NextContract]_vars

(***************************************************************************)
(* kaffpa's main (src/app/kaffpa.cpp).  The partitioner itself is a call   *)
(* that may leave any labelling in the graph; the timer is a clock that    *)
(* advances between the statements of main.                                *)
(***************************************************************************)
MaxTimeLimit == 2
MaxIterations == 2

\* std::numeric_limits<EdgeWeight>::max()
EdgeWeightMax == 2147483647

Labellings == [Nodes -> Blocks]
\* what a freshly allocated PartitionID array may hold: any values, among
\* them values that are no block ids
UninitLabellings == [Nodes -> 0..Cardinality(Blocks)]

NoMap == [written |-> FALSE]

\* the state of main before its first statement: the command line and the
\* contents of the files it names
StartMain(input_partition, file, time_limit, only_first_level) ==
  [pc |-> "parse",
   ret_code |-> 0,
   exit_code |-> -1,
   input_file |-> file,
   partition_config |-> [input_partition |-> input_partition,
                         time_limit |-> time_limit,
                         graph_allready_partitioned |-> FALSE,
                         only_first_level |-> only_first_level],
   config |-> [only_first_level |-> FALSE],
   G |-> [v \in Nodes |-> 0],
   t |-> 0,
   map |-> NoMap,
   best_cut |-> EdgeWeightMax,
   calls |-> <<>>,
   written |-> FALSE]

\* lines 57-65: a nonzero return code of parse_parameters ends main with
\* `return 0`
MainParse ==
  /\ app.pc = "parse"
  /\ \E ret_code \in {0, 1} :
       app' = IF ret_code # 0
              THEN [app EXCEPT !.pc = "exit", !.ret_code = ret_code, !.exit_code = 0]
              ELSE [app EXCEPT !.pc = "read", !.ret_code = ret_code]

\* lines 75-102 and 160: the graph is read; a supplied partition is read into
\* the graph, partition_config.graph_allready_partitioned is set, and
\* only_first_level is set in the object named config; the timer restarts
MainRead ==
  /\ app.pc = "read"
  /\ app' = IF app.partition_config.input_partition # ""
            THEN [app EXCEPT !.pc = "partition", !.t = 0,
                             !.G = app.input_file,
                             !.partition_config.graph_allready_partitioned = TRUE,
                             !.config.only_first_level = TRUE]
            ELSE [app EXCEPT !.pc = "partition", !.t = 0]

\* wall time passes between any two statements after the timer's restart
MainTick ==
  /\ app.pc \in {"partition", "test"}
  /\ app.t < MaxTimeLimit
  /\ app' = [app EXCEPT !.t = app.t + 1]

\* partitioner.perform_partitioning(partition_config, G): the flags it is
\* called with, the labels it finds and the labels it leaves
perform_partitioning(a, result) ==
  [a EXCEPT !.G = result,
            !.calls = Append(a.calls,
                [graph_allready_partitioned |-> a.partition_config.graph_allready_partitioned,
                 only_first_level |-> a.partition_config.only_first_level,
                 before |-> a.G,
                 after |-> result,
                 cut |-> EdgeCut(result)])]

\* lines 165-166: no time limit, one call
MainPerformOnce ==
  /\ app.pc = "partition"
  /\ app.partition_config.time_limit = 0
  /\ \E result \in Labellings :
       app' = [perform_partitioning(app, result) EXCEPT !.pc = "finish"]

\* lines 167-169: map is allocated, best_cut starts at the maximum
MainEnterLoop ==
  /\ app.pc = "partition"
  /\ app.partition_config.time_limit # 0
  /\ app' = [app EXCEPT !.pc = "test", !.map = NoMap, !.best_cut = EdgeWeightMax]

\* line 170: while (t.elapsed() < partition_config.time_limit)
MainLoopTest ==
  /\ app.pc = "test"
  /\ IF app.t < app.partition_config.time_limit
     THEN /\ Len(app.calls) < MaxIterations
          /\ app' = [app EXCEPT !.pc = "iter"]
     ELSE app' = [app EXCEPT !.pc = "restore"]

\* lines 171-179: one iteration of the repeat loop
MainIter ==
  /\ app.pc = "iter"
  /\ \E result \in Labellings :
       \E a \in {perform_partitioning(
                   [app EXCEPT !.partition_config.graph_allready_partitioned = FALSE],
                   result)} :
         app' = IF EdgeCut(a.G) < a.best_cut
                THEN [a EXCEPT !.pc = "test", !.best_cut = EdgeCut(a.G),
                               !.map = [written |-> TRUE, labels |-> a.G]]
                ELSE [a EXCEPT !.pc = "test"]

\* lines 182-184: the graph's labels are overwritten with map; a map that was
\* never written holds whatever the allocation left in it
MainRestore ==
  /\ app.pc = "restore"
  /\ \E labels \in (IF app.map.written THEN {app.map.labels} ELSE UninitLabellings) :
       app' = [app EXCEPT !.pc = "finish", !.G = labels]

\* lines 198-234: the partition is written and main falls off its end
MainFinish ==
  /\ app.pc = "finish"
  /\ app' = [app EXCEPT !.pc = "exit", !.written = TRUE, !.exit_code = 0]

\* the refinement and the contractor at rest
RefinementAtRest ==
  /\ config = [upper_bound_partition |-> TightUpperBound,
               apply_move_strategy |-> "SKIP"]
  /\ part = [v \in Nodes |-> IF v < 2 THEN 0 ELSE 1]
  /\ blockWeight = [b \in Blocks |-> WeightOf(part, b)]
  /\ blockNoNodes = [b \in Blocks |-> SizeOf(part, b)]
  /\ boundary = BoundaryOf(part)
  /\ moved_idx = [v \in Nodes |-> FALSE]
  /\ num_threads_finished = 0
  /\ finished_threads = <<>>
  /\ td = [w \in Workers |-> InitThreadData(part)]
  /\ co = InitCo
  /\ moved_nodes = [v \in Nodes |-> <<>>]
  /\ aborted = FALSE
  /\ hist = InitHist(part)

InitMain ==
  /\ RefinementAtRest
  /\ ct = CtOff
  /\ qgr = QgrOff
  /\ \E input_partition \in {"", "file"}, file \in Labellings,
        time_limit \in 0..MaxTimeLimit, only_first_level \in BOOLEAN :
       /\ input_partition = "" => file = [v \in Nodes |-> 0]
       /\ app = StartMain(input_partition, file, time_limit, only_first_level)

NextMain ==
  \/ MainParse /\ UNCHANGED <<refinement, ct, qgr>>
  \/ MainRead /\ UNCHANGED <<refinement, ct, qgr>>
  \/ MainTick /\ UNCHANGED <<refinement, ct, qgr>>
  \/ MainPerformOnce /\ UNCHANGED <<refinement, ct, qgr>>
  \/ MainEnterLoop /\ UNCHANGED <<refinement, ct, qgr>>
  \/ MainLoopTest /\ UNCHANGED <<refinement, ct, qgr>>
  \/ MainIter /\ UNCHANGED <<refinement, ct, qgr>>
  \/ MainRestore /\ UNCHANGED <<refinement, ct, qgr>>
  \/ MainFinish /\ UNCHANGED <<refinement, ct, qgr>>

SpecMain == InitMain /\ [][NextMain]_vars

(***************************************************************************)
(* quotient_graph_refinement::perform_refinement: the do-while loop over   *)
(* the pairs the scheduler hands out.  The scheduler keeps the pairs still *)
(* to visit in this pass, the blocks marked active for the next pass and   *)
(* the number of pairs it may still hand out.                              *)
(***************************************************************************)
QBlocks == 0..2
MaxPairwiseSteps == 3

QuotientGraphEdges == {p \in QBlocks \X QBlocks : p[1] < p[2]}
SchedulingAlgorithms == {"FAST", "ACTIVE_BLOCKS", "ACTIVE_BLOCKS_REF_KWAY"}

NoStat == [pushed |-> FALSE]

\* activate_blocks of the active-block scheduler: the blocks become active
\* for the next pass
activate_blocks(s, touched_blocks) ==
  [s EXCEPT !.active = @ \cup touched_blocks]

\* pushStatistics: the blocks of a pair whose refinement changed something
\* become active
pushStatistics(s, stat) ==
  [s EXCEPT !.active = IF stat.something_changed
                       THEN @ \cup {stat.pair[1], stat.pair[2]} ELSE @]

\* hasFinished: when the pass is exhausted the next pass is made of the pairs
\* with an active block; finished when that is empty or nothing may be handed
\* out any more.  [finished, s]
hasFinished(s) ==
  LET refilled == IF s.queue = {}
                  THEN [s EXCEPT !.queue = {p \in s.edges : p[1] \in s.active \/
                                                             p[2] \in s.active},
                                 !.active = {}]
                  ELSE s
  IN  [finished |-> refilled.queue = {} \/ refilled.account = 0, s |-> refilled]

\* the frame of perform_refinement at its entry (lines 84-117);
\* two_way_returned sums what the calls of perform_a_two_way_refinement
\* returned (it is not a variable of the code)
StartRefinement(edges, algorithm, two_way) ==
  [pc |-> "head",
   config |-> [refinement_scheduling_algorithm |-> algorithm,
               quotient_graph_two_way_refinement |-> two_way],
   scheduler |-> [edges |-> edges, queue |-> edges, active |-> {},
                  account |-> MaxPairwiseSteps],
   bp |-> <<>>, initial_cut_value |-> 0,
   improvement |-> 0, something_changed |-> FALSE,
   multitry_improvement |-> 0, touched_blocks |-> {},
   overall_improvement |-> 0, cut_improvement |-> 0, two_way_returned |-> 0,
   stat |-> NoStat, no_of_pushes |-> 0, last_call |-> "none"]

\* line 125 (the test at the head of the body) and line 196 (the loop
\* condition): scheduler->hasFinished()
QgrHasFinished ==
  /\ qgr.pc \in {"head", "cond"}
  /\ \E h \in {hasFinished(qgr.scheduler)} :
       qgr' = [qgr EXCEPT !.scheduler = h.s, !.last_call = "hasFinished",
                          !.pc = IF h.finished THEN "done"
                                 ELSE IF qgr.pc = "cond" THEN "head" ELSE "fetch"]

\* lines 127-144: getNext, the pair's cut; a negative cut takes `continue`,
\* which goes to the loop condition of line 196
QgrGetNext ==
  /\ qgr.pc = "fetch"
  /\ \E bp \in qgr.scheduler.queue, initial_cut_value \in -1..1 :
       qgr' = [qgr EXCEPT !.scheduler.queue = @ \ {bp},
                          !.scheduler.account = @ - 1,
                          !.bp = bp, !.initial_cut_value = initial_cut_value,
                          !.last_call = "getNext",
                          !.improvement = 0, !.something_changed = FALSE,
                          !.multitry_improvement = 0, !.touched_blocks = {},
                          !.stat = NoStat, !.no_of_pushes = 0,
                          !.pc = IF initial_cut_value < 0 THEN "cond" ELSE "twoway"]

\* a faulty two-way step that forgets the improvement of the pair
QgrTwoWay_uncounted ==
  /\ qgr.pc = "twoway"
  /\ \E improvement \in 0..1, something_changed \in BOOLEAN :
       /\ ~qgr.config.quotient_graph_two_way_refinement =>
            (improvement = 0 /\ ~something_changed)
       /\ improvement > 0 => something_changed
       /\ qgr' = [qgr EXCEPT !.improvement = improvement,
                             !.something_changed = something_changed,
                             !.two_way_returned = @ + improvement,
                             !.pc = "kway"]

\* lines 146-159: the two-way refinement of the pair, if configured; its
\* improvement is added to overall_improvement
QgrTwoWay ==
  /\ qgr.pc = "twoway"
  /\ \E improvement \in 0..1, something_changed \in BOOLEAN :
       /\ ~qgr.config.quotient_graph_two_way_refinement =>
            (improvement = 0 /\ ~something_changed)
       /\ improvement > 0 => something_changed
       /\ qgr' = [qgr EXCEPT !.improvement = improvement,
                             !.something_changed = something_changed,
                             !.overall_improvement = @ + improvement,
                             !.two_way_returned = @ + improvement,
                             !.pc = "kway"]

\* a faulty k-way step that never activates the touched blocks
QgrKway_without_activation ==
  /\ qgr.pc = "kway"
  /\ IF qgr.config.refinement_scheduling_algorithm = "ACTIVE_BLOCKS_REF_KWAY"
     THEN \E multitry_improvement \in 0..1, touched_blocks \in SUBSET QBlocks :
            /\ multitry_improvement > 0 => touched_blocks # {}
            /\ qgr' = [qgr EXCEPT
                         !.multitry_improvement = multitry_improvement,
                         !.touched_blocks = touched_blocks,
                         !.cut_improvement = @ + multitry_improvement,
                         !.last_call = "perform_refinement_around_parts",
                         !.pc = "stats"]
     ELSE qgr' = [qgr EXCEPT !.pc = "stats"]

\* lines 160-182: under ACTIVE_BLOCKS_REF_KWAY the k-way refiner is called
\* around the pair and reports its improvement and the blocks it touched; the
\* improvement is added to cut_improvement and the blocks are activated if it
\* is positive
QgrKway ==
  /\ qgr.pc = "kway"
  /\ IF qgr.config.refinement_scheduling_algorithm = "ACTIVE_BLOCKS_REF_KWAY"
     THEN \E multitry_improvement \in 0..1, touched_blocks \in SUBSET QBlocks :
            /\ multitry_improvement > 0 => touched_blocks # {}
            /\ qgr' = [qgr EXCEPT
                         !.multitry_improvement = multitry_improvement,
                         !.touched_blocks = touched_blocks,
                         !.cut_improvement = @ + multitry_improvement,
                         !.last_call = "perform_refinement_around_parts",
                         !.scheduler = IF multitry_improvement > 0
                                       THEN activate_blocks(@, touched_blocks)
                                       ELSE @,
                         !.pc = "stats"]
     ELSE qgr' = [qgr EXCEPT !.pc = "stats"]

\* lines 184-185: the statistics of the pair are pushed
QgrPushStatistics ==
  /\ qgr.pc = "stats"
  /\ \E stat \in {[pushed |-> TRUE, improvement |-> qgr.improvement, pair |-> qgr.bp,
                   something_changed |-> qgr.something_changed]} :
       qgr' = [qgr EXCEPT !.scheduler = pushStatistics(@, stat),
                          !.stat = stat, !.no_of_pushes = @ + 1,
                          !.last_call = "pushStatistics",
                          !.pc = "cond"]

InitQgr ==
  /\ RefinementAtRest
  /\ ct = CtOff
  /\ app = AppOff
  /\ \E edges \in SUBSET QuotientGraphEdges, algorithm \in SchedulingAlgorithms,
        two_way \in BOOLEAN :
       qgr = StartRefinement(edges, algorithm, two_way)

NextQgr ==
  \/ QgrHasFinished /\ UNCHANGED <<refinement, ct, app>>
  \/ QgrGetNext /\ UNCHANGED <<refinement, ct, app>>
  \/ QgrTwoWay /\ UNCHANGED <<refinement, ct, app>>
  \/ QgrKway /\ UNCHANGED <<refinement, ct, app>>
  \/ QgrPushStatistics /\ UNCHANGED <<refinement, ct, app>>

SpecQgr == InitQgr /\ [][NextQgr]_vars

(***************************************************************************)
(* contract_clustering (contraction.cpp): the fine graph lends its block   *)
(* labels and its block count to the construction of the quotient graph.   *)
(***************************************************************************)

\* the bits of a PartitionID and of an int in this model
PartitionIDBits == 3

\* the block labels a fine vertex may carry: blocks, and the all-ones value
\* of an unassigned vertex
LabelValues == Blocks \cup {2 ^ PartitionIDBits - 1}

\* a faulty conversion that takes a negative int for block 0
to_PartitionID_clamped(i) == IF i < 0 THEN 0 ELSE i

\* int -> PartitionID, as G.setPartitionIndex(node, partition_map[node]) and
\* G.set_partition_count(k) convert their argument
to_PartitionID(i) == i % (2 ^ PartitionIDBits)

\* PartitionID -> int, as partition_map[node] = G.getPartitionIndex(node) and
\* int k = G.get_partition_count() convert
to_int(x) ==
  IF x >= 2 ^ (PartitionIDBits - 1) THEN x - 2 ^ PartitionIDBits ELSE x

\* the state at the call of contract_clustering on fine graph G
StartClustering(cm, nc, G) ==
  [variant |-> "clustering", pc |-> "save", node |-> 0,
   coarse_mapping |-> cm, no_of_coarse_vertices |-> nc,
   G |-> G, before |-> G,
   partition_map |-> [n \in CNodes |-> 0],
   k |-> to_int(G.partition_count),
   coarser |-> [nodes |-> 0, partition_index |-> <<>>]]

\* first loop, one vertex: its label is saved and replaced by its cluster id
ClusteringSave ==
  /\ ct.variant = "clustering" /\ ct.pc = "save"
  /\ LET node == ct.node IN
     ct' = [ct EXCEPT
              !.partition_map[node] = to_int(ct.G.partition_index[node]),
              !.G.partition_index[node] = ct.coarse_mapping[node],
              !.node = IF node + 1 < Cardinality(CNodes) THEN node + 1 ELSE 0,
              !.pc = IF node + 1 < Cardinality(CNodes) THEN "save" ELSE "count"]

\* G.set_partition_count(no_of_coarse_vertices)
ClusteringSetCount ==
  /\ ct.variant = "clustering" /\ ct.pc = "count"
  /\ ct' = [ct EXCEPT !.G.partition_count = ct.no_of_coarse_vertices,
                      !.pc = "quotient"]

\* the quotient graph of G becomes the coarse graph (one vertex per block of
\* G), then G.set_partition_count(k)
ClusteringQuotient ==
  /\ ct.variant = "clustering" /\ ct.pc = "quotient"
  /\ ct' = [ct EXCEPT !.coarser.nodes = ct.G.partition_count,
                      !.G.partition_count = to_PartitionID(ct.k),
                      !.pc = "restore"]

\* second loop, one vertex: its label is restored and given to its coarse
\* vertex
ClusteringRestore ==
  /\ ct.variant = "clustering" /\ ct.pc = "restore"
  /\ LET node  == ct.node
         label == to_PartitionID(ct.partition_map[node])
     IN  ct' = [ct EXCEPT
                  !.G.partition_index[node] = label,
                  !.coarser.partition_index =
                     [c \in DOMAIN @ \cup {ct.coarse_mapping[node]} |->
                        IF c = ct.coarse_mapping[node] THEN label ELSE @[c]],
                  !.node = IF node + 1 < Cardinality(CNodes) THEN node + 1 ELSE 0,
                  !.pc = IF node + 1 < Cardinality(CNodes) THEN "restore"
                         ELSE "returned"]

InitClustering ==
  /\ RefinementAtRest
  /\ app = AppOff
  /\ qgr = QgrOff
  /\ \E cm \in ClusterMaps, labels \in [CNodes -> LabelValues] :
       ct = StartClustering(cm, Cardinality({cm[n] : n \in CNodes}),
                            [partition_index |-> labels,
                             partition_count |-> Cardinality(Blocks)])

NextClustering ==
  \/ ClusteringSave /\ UNCHANGED <<refinement, app, qgr>>
  \/ ClusteringSetCount /\ UNCHANGED <<refinement, app, qgr>>
  \/ ClusteringQuotient /\ UNCHANGED <<refinement, app, qgr>>
  \/ ClusteringRestore /\ UNCHANGED <<refinement, app, qgr>>

SpecClustering == InitClustering /\ [][NextClustering]_vars

(***************************************************************************)
(* Properties.                                                             *)
(***************************************************************************)

\* C1: when apply_moves has returned, the edge cut before the apply phase
\* minus the edge cut after it equals the overall gain it returned.
C1_CutDropEqualsGain ==
  (co.pc = "returned" /\ ~aborted) =>
    EdgeCut(hist.part0) - EdgeCut(part) = co.overall_gain

\* C2: every block weight was at most W_max when the apply phase started, and
\* when apply_moves has returned every block weight is still at most W_max.
C2_BalanceKept ==
  (co.pc = "returned" /\ ~aborted) =>
    \A b \in Blocks : /\ blockWeight[b] <= upper_bound_partition
                      /\ WeightOf(part, b) <= upper_bound_partition

\* apply_moves has returned after commits that filled a block up to the last
\* weight the check admits
C2_Reached ==
  /\ co.pc = "returned" /\ ~aborted
  /\ \E b \in Blocks : /\ blockWeight[b] # WeightOf(hist.part0, b)
                       /\ blockWeight[b] = upper_bound_partition - 1

C4_PhaseSeparation ==
  [][part' # part => \A w \in DOMAIN td : td[w].pc = "finished"]_vars

\* C5: a vertex is in the queue or the moved list of at most one worker, and
\* every vertex in a queue or a moved list has its claim bit set.
C5_ClaimedOnce ==
  /\ \A w1, w2 \in DOMAIN td :
       w1 # w2 => /\ td[w1].moved \cap td[w2].moved = {}
                  /\ td[w1].qn \cap td[w2].qn = {}
  /\ \A w \in DOMAIN td : /\ td[w].qn \subseteq td[w].moved
                          /\ \A v \in td[w].moved : moved_idx[v]

\* both workers hold claims and a round of one of them found its start node
\* claimed (it ended at once, with min cut index -1)
C5_Reached ==
  /\ \A w \in DOMAIN td : td[w].moved # {}
  /\ \E w \in DOMAIN td : \E i \in 1..Len(td[w].min_cut_indices) :
       td[w].min_cut_indices[i][1] = -1 /\ td[w].log[td[w].min_cut_indices[i][2] + 1] = SentinelEntry
       /\ (i = 1 => td[w].min_cut_indices[i][2] = 0)
       /\ (i > 1 => td[w].min_cut_indices[i][2] = td[w].min_cut_indices[i - 1][2] + 1)

\* C6: relaxed_move_node returns false exactly when the target block's weight
\* plus the vertex weight is at least upper_bound_partition or the source
\* block has one node; otherwise it returns true and the vertex is in `to`.
C6_RelaxedMoveResult ==
  hist.last.called =>
    /\ (hist.last.result = "refused") <=>
         \/ hist.last.pre.bw[hist.last.to] + getNodeWeight(hist.last.node)
              >= upper_bound_partition
         \/ hist.last.pre.bn[hist.last.from] = 1
    /\ hist.last.result # "refused" =>
         hist.last.result = "moved" /\ hist.last.post.part[hist.last.node] = hist.last.to

\* a call refused for the weight alone
C6_Reached ==
  /\ hist.last.called
  /\ hist.last.result = "refused"
  /\ hist.last.pre.bn[hist.last.from] > 1
  /\ hist.last.pre.bw[hist.last.to] + getNodeWeight(hist.last.node)
       >= upper_bound_partition

\* C7: a call of relaxed_move_node that returns false changes no shared
\* state: labels, block weights, block sizes and boundary are as before.
C7_RefusalChangesNothing ==
  (hist.last.called /\ hist.last.result = "refused") =>
    hist.last.post = hist.last.pre

\* a call refused for the last node of its block, after earlier commits
C7_Reached ==
  /\ hist.last.called
  /\ hist.last.result = "refused"
  /\ hist.last.pre.bn[hist.last.from] = 1
  /\ hist.last.pre.part # hist.part0

LastRound(t) ==
  LET n == Len(t.min_cut_indices)
  IN  [start |-> IF n = 1 THEN 0 ELSE t.min_cut_indices[n - 1][2] + 1,
       min_cut_index |-> t.min_cut_indices[n][1],
       end |-> t.min_cut_indices[n][2]]

\* the 0-based log indices of the moves the last round kept
KeptMoves(t) ==
  IF LastRound(t).min_cut_index = -1 THEN {}
  ELSE LastRound(t).start..LastRound(t).min_cut_index

\* the local labelling right after the kept moves of the last round
ViewAfterKept(t) ==
  [v \in Nodes |->
     IF \E i \in KeptMoves(t) : t.log[i + 1].node = v
     THEN t.log[(CHOOSE i \in KeptMoves(t) :
                   /\ t.log[i + 1].node = v
                   /\ \A j \in KeptMoves(t) : t.log[j + 1].node = v => j <= i) + 1].to
     ELSE part[v]]

\* what the kept moves of the last round add to the weight and size of block b
KeptWeight(t, b) ==
  SumOver([i \in KeptMoves(t) |->
             (IF t.log[i + 1].to = b THEN getNodeWeight(t.log[i + 1].node) ELSE 0)
             - (IF t.log[i + 1].from = b THEN getNodeWeight(t.log[i + 1].node) ELSE 0)],
          KeptMoves(t))

KeptSize(t, b) ==
  SumOver([i \in KeptMoves(t) |->
             (IF t.log[i + 1].to = b THEN 1 ELSE 0)
             - (IF t.log[i + 1].from = b THEN 1 ELSE 0)],
          KeptMoves(t))

\* C9: after a round has unrolled its local moves past the best index, the
\* worker's local labels, block weights and block sizes equal the state they
\* had before the unrolled moves were made.
C9_UnrollRestoresLocalState ==
  \A w \in DOMAIN td :
    LET t == td[w] IN
    (/\ t.pc = "idle" /\ t.min_cut_indices # <<>>
     /\ LastRound(t).min_cut_index # -1
     /\ LastRound(t).min_cut_index < LastRound(t).end - 1) =>
      /\ LocalView(t) = ViewAfterKept(t)
      /\ \A b \in Blocks :
           /\ t.parts_weights[b] = t.pre_weights[b] + KeptWeight(t, b)
           /\ t.parts_sizes[b] = t.pre_sizes[b] + KeptSize(t, b)

\* C10: worker 0's log is applied first and the other workers' logs follow
\* in increasing order of worker id.
C10_IncreasingIdOrder ==
  \A i, j \in 1..Len(co.order) : i < j => co.order[i] < co.order[j]

\* C10, as the code has it: worker 0's log is applied first and the other
\* workers' logs follow in the order in which the workers finished.
C10_FinishOrder ==
  co.order = SubSeq(<<0>> \o hist.finished, 1, Len(co.order))

\* all logs were applied and worker 2's before worker 1's
C10_Reached ==
  co.pc = "returned" /\ co.order = <<0, 2, 1>>

(***************************************************************************)
(* C12: every vertex has, at every moment, exactly one shared label, a     *)
(* block of 0..k-1: whatever the apply loop, a roll-back or a conflict     *)
(* policy writes is a block, never INVALID_PARTITION and never the         *)
(* sentinel, and the log entry the apply loop or gain_recalculation takes  *)
(* next is a move of a vertex, never a round's sentinel.                   *)
(***************************************************************************)
C12_LabelsAlwaysValid ==
  /\ part \in [Nodes -> Blocks]
  /\ hist.last.called =>
       /\ hist.last.node \in Nodes
       /\ hist.last.from \in Blocks /\ hist.last.to \in Blocks
       /\ hist.last.post.part \in [Nodes -> Blocks]
  /\ hist.policy.kind # "none" => hist.policy.post.part \in [Nodes -> Blocks]
  /\ co.pc = "move" =>
       /\ td[co.id].log[co.index + 1] # SentinelEntry
       /\ td[co.id].log[co.index + 1].node \in Nodes
       /\ td[co.id].log[co.index + 1].to \in Blocks
  /\ co.pc = "gr" => td[co.id].log[co.sub.index + 1].node \in Nodes

\* a policy has committed a move of its own and rolled it back, with the
\* round's sentinel lying right behind the entries it went through
C12_Reached ==
  /\ hist.policy.kind = "GAIN_RECALCULATION"
  /\ Len(hist.policy.moves) > Len(hist.policy.kept)
  /\ hist.policy.post.part # hist.policy.pre.part
  /\ td[hist.policy.id].log[hist.policy.next_index + 1] = SentinelEntry

\* the vertices of a sequence of transpositions
NodesOf(trans) == {trans[i].node : i \in 1..Len(trans)}

(***************************************************************************)
(* C17: local_search_from_one_node returns for every input, and when it    *)
(* has returned exactly the vertices of its kept transpositions are in     *)
(* moved_nodes as moved by all threads; no other entry has changed.        *)
(***************************************************************************)
C17_LocalSearchReturns ==
  hist.policy.kind = "LOCAL_SEARCH" =>
    /\ ~aborted
    /\ \A v \in Nodes :
         IF v \in NodesOf(hist.policy.kept)
         THEN moved_nodes[v] # <<>> /\ moved_nodes[v][1] = AllThreads
         ELSE moved_nodes[v] = hist.policy.pre_mn[v]

RECURSIVE ApplyTrans(_, _)
\* the labels L after the transpositions trans, first to last
ApplyTrans(L, trans) ==
  IF trans = <<>> THEN L
  ELSE ApplyTrans([L EXCEPT ![Head(trans).node] = Head(trans).to], Tail(trans))

RECURSIVE GainSum(_)
GainSum(trans) ==
  IF trans = <<>> THEN 0 ELSE Head(trans).gain + GainSum(Tail(trans))

(***************************************************************************)
(* C18 as the code has it: gain_recalculation moves a remaining logged     *)
(* vertex to the block compute_gain names for it whatever the sign of the  *)
(* recomputed gain (each gain is the one computed on the shared labels     *)
(* right before the move), then takes back the moves behind the prefix of  *)
(* largest total gain: the kept moves are a prefix of the moves made,      *)
(* their total gain is not negative, no prefix has a larger one, it is the *)
(* gain returned and the drop of the cut over the whole call.              *)
(***************************************************************************)
C18_BestPrefixKept ==
  hist.policy.kind = "GAIN_RECALCULATION" /\ ~aborted =>
    LET p     == hist.policy
        entry == p.snap.sh.part
        n     == Len(p.moves)
    IN  /\ Len(p.kept) <= n
        /\ p.kept = SubSeq(p.moves, 1, Len(p.kept))
        /\ \A i \in 1..n :
             LET L == ApplyTrans(entry, SubSeq(p.moves, 1, i - 1))
                 r == compute_gain(L, p.moves[i].node)
             IN  /\ p.moves[i].from = L[p.moves[i].node]
                 /\ p.moves[i].to = r.to
                 /\ p.moves[i].gain = r.gain
        /\ p.gain = GainSum(p.kept)
        /\ p.gain >= 0
        /\ \A j \in 0..n : GainSum(SubSeq(p.moves, 1, j)) <= p.gain
        /\ p.post.part = ApplyTrans(entry, p.kept)
        /\ EdgeCut(entry) - EdgeCut(p.post.part) = p.gain

\* gain_recalculation has moved a vertex at a recomputed gain that is not
\* positive and has taken the move back
C18_Reached ==
  /\ hist.policy.kind = "GAIN_RECALCULATION" /\ ~aborted
  /\ Len(hist.policy.moves) > Len(hist.policy.kept)
  /\ hist.policy.moves[Len(hist.policy.moves)].gain <= 0

\* C18 as stated: gain_recalculation moves a vertex only at a positive
\* recomputed gain
C18_OnlyPositiveGain ==
  hist.policy.kind = "GAIN_RECALCULATION" =>
    \A i \in 1..Len(hist.policy.kept) : hist.policy.kept[i].gain > 0

\* the vertices a returned policy found committed behind best_cut_index and
\* unrolled: the log entries best_cut_index + 1 .. index - 1
Unrolled(p) ==
  {td[p.id].log[i + 1].node : i \in (p.best_cut_index + 1)..(p.index - 1)}

\* the apply loop has left the round the policy p was invoked in
RoundLeft(p) ==
  ~(co.pc = "move" /\ co.id = p.id /\ co.index <= p.next_index)

(***************************************************************************)
(* C19: on a conflict under REACTIVE_VERTICES the round is left with no    *)
(* further commit (the shared labels are those of the round's best index), *)
(* and reactivated_vertices has received the vertex of the log entry at    *)
(* best_cut_index + 1 followed by each of its neighbours.                  *)
(***************************************************************************)
C19_ReactivatedSeeds ==
  hist.policy.kind = "REACTIVE_VERTICES" /\ ~aborted =>
    LET p    == hist.policy
        v    == td[p.id].log[p.best_cut_index + 2].node
        rv   == co.reactivated_vertices
        n    == Len(p.pre_rv)
    IN  /\ RoundLeft(p)
        /\ p.post.part = p.snap.sh.part
        /\ Len(rv) = n + 1 + Cardinality(Neighbours(v))
        /\ SubSeq(rv, 1, n) = p.pre_rv
        /\ rv[n + 1] = v
        /\ {rv[i] : i \in (n + 2)..Len(rv)} = Neighbours(v)

\* the conflict came after a commit behind the round's best index, so that
\* the first skipped vertex is one that was committed and unrolled
C19_Reached ==
  /\ hist.policy.kind = "REACTIVE_VERTICES" /\ ~aborted
  /\ hist.policy.best_cut_index + 1 < hist.policy.index
  /\ Cardinality(Neighbours(td[hist.policy.id].log[hist.policy.best_cut_index + 2].node)) > 1

Built == ct.variant # "off" /\ ct.phase = "built"

\* the fine arcs u -> v, as <<u, position in u's range>>, from cluster a to b
FineArcs(a, b) ==
  {p \in UNION {{<<u, i>> : i \in 1..Len(COut[u])} : u \in CNodes} :
     /\ ct.coarse_mapping[p[1]] = a
     /\ ct.coarse_mapping[COut[p[1]][p[2]].target] = b}

FineArcWeight(a, b) ==
  SumOver([p \in FineArcs(a, b) |-> COut[p[1]][p[2]].weight], FineArcs(a, b))

\* the positions of the arcs a -> b in the range of coarse vertex a
CoarseArcs(a, b) ==
  {i \in 1..Len(ct.coarser.adj[a]) : ct.coarser.adj[a][i].target = b}

CoarseArcWeight(a, b) ==
  SumOver([i \in CoarseArcs(a, b) |-> ct.coarser.adj[a][i].weight], CoarseArcs(a, b))

\* two fine arcs run between one pair of clusters, and some arc inside one
ParallelArcs ==
  /\ \E a, b \in Clusters : a # b /\ Cardinality(FineArcs(a, b)) >= 2
  /\ \E a \in Clusters : FineArcs(a, a) # {}

(***************************************************************************)
(* C13: whichever clustering variant has run (single concurrent map,       *)
(* sharded maps, sequential map), with any distribution of the vertices    *)
(* over the workers and any order of their insertOrUpdate calls, the       *)
(* coarse graph has, for every ordered pair of distinct clusters (a, b)    *)
(* joined by a fine arc, an arc a -> b, and the weight of a -> b is the    *)
(* sum of the weights of the fine arcs from a vertex of a to one of b.     *)
(***************************************************************************)
C13_CoarseArcWeights ==
  Built =>
    \A a, b \in Clusters :
      a # b => /\ CoarseArcWeight(a, b) = FineArcWeight(a, b)
               /\ FineArcs(a, b) # {} => CoarseArcs(a, b) # {}

\* the third variant has built its graph after the other two, on a cluster
\* map under which parallel fine arcs are summed
C13_Reached ==
  /\ Built /\ ct.variant = "sequential"
  /\ DOMAIN ct.results = {"single", "sharded"}
  /\ ParallelArcs

(***************************************************************************)
(* C14: the weight of every coarse vertex is the sum of the weights of the *)
(* fine vertices of its cluster, however the vertex blocks were taken by   *)
(* the workers, and the coarse weights add up to the fine weights.         *)
(***************************************************************************)
C14_CoarseNodeWeights ==
  Built =>
    /\ \A c \in Clusters :
         ct.coarser.weight[c] =
           SumOver([n \in CNodes |-> CNodeWeight(n)],
                   {n \in CNodes : ct.coarse_mapping[n] = c})
    /\ SumOver(ct.coarser.weight, Clusters) =
         SumOver([n \in CNodes |-> CNodeWeight(n)], CNodes)

\* a parallel variant has built its graph with the vertices of one cluster
\* taken by different workers
C14_Reached ==
  /\ Built /\ ct.variant = "sharded"
  /\ \E c \in Clusters : \A w \in CWorkers : ct.wk[w].my_block_infos[c] > 0

(***************************************************************************)
(* C15: the coarse graph of every clustering variant has no arc from a     *)
(* cluster to itself and at most one arc for every ordered pair of         *)
(* distinct clusters.                                                      *)
(***************************************************************************)
C15_SimpleCoarseGraph ==
  Built =>
    \A a \in Clusters :
      /\ CoarseArcs(a, a) = {}
      /\ \A b \in Clusters : Cardinality(CoarseArcs(a, b)) <= 1

\* a graph was built from a cluster map with arcs inside a cluster and
\* parallel arcs between two clusters
C15_Reached ==
  /\ Built /\ ct.variant = "single"
  /\ ParallelArcs
  /\ \E a, b \in Clusters : Cardinality(CoarseArcs(a, b)) = 1

(***************************************************************************)
(* C16: on the same fine graph and cluster map the single-map variant      *)
(* (sorted key, aggregate halved) and the sharded variant (unsorted key,   *)
(* no halving) build the same coarse graph: the same coarse node weights   *)
(* and, for every coarse vertex, the same weighted arcs up to their order. *)
(***************************************************************************)
C16_VariantsAgree ==
  (ct.variant # "off" /\ {"single", "sharded"} \subseteq DOMAIN ct.results) =>
    ct.results["single"] = ct.results["sharded"]

\* both variants have built a graph in which a coarse vertex has two arcs,
\* one of them the sum of two fine arcs
C16_Reached ==
  /\ ct.variant # "off" /\ {"single", "sharded"} \subseteq DOMAIN ct.results
  /\ \E a, b \in Clusters : a # b /\ Cardinality(FineArcs(a, b)) >= 2
  /\ \E c \in Clusters : Cardinality(DOMAIN ct.results["sharded"].arcs[c]) >= 2

\* C21: when parse_parameters returns nonzero, main performs no partitioning
\* and ends with a nonzero exit code.
C21_ParseErrorExitsNonzero ==
  (app.pc = "exit" /\ app.ret_code # 0) =>
    (app.exit_code # 0 /\ app.calls = <<>> /\ ~app.written)

\* C22: with a time limit, after the repeat loop the graph carries the labels
\* of an executed iteration of minimal cut, the earliest on ties.
C22_BestIterationKept ==
  (app.pc = "finish" /\ app.partition_config.time_limit > 0) =>
    \E i \in 1..Len(app.calls) :
      /\ app.G = app.calls[i].after
      /\ \A j \in 1..Len(app.calls) : app.calls[j].cut >= app.calls[i].cut
      /\ \A j \in 1..(i - 1) : app.calls[j].cut > app.calls[i].cut

\* C23: with an input partition, every call of perform_partitioning has
\* graph_allready_partitioned and only_first_level set.
C23_InputPartitionRefined ==
  app.partition_config.input_partition # "" =>
    \A i \in 1..Len(app.calls) :
      app.calls[i].graph_allready_partitioned /\ app.calls[i].only_first_level

\* C27: in every state the stored aggregates of every block agree with the
\* shared labels: blockWeight is the weight of the vertices labelled with the
\* block and blockNoNodes their number, whatever relaxed moves and rollbacks
\* have been made.
C27_AggregatesMatchLabels ==
  \A a \in Blocks :
    /\ blockWeight[a] = WeightOf(part, a)
    /\ blockNoNodes[a] = SizeOf(part, a)

\* a gain recalculation has made relaxed moves and rolled some of them back,
\* and the labels differ from the initial ones
C27_Reached ==
  /\ hist.policy.kind = "GAIN_RECALCULATION"
  /\ Len(hist.policy.moves) > Len(hist.policy.kept)
  /\ part # hist.part0

\* the r-th round of a worker's log: 0-based index of its first entry, the
\* min_cut_index it returned and the index of its sentinel
RoundBlock(t, r) ==
  [start |-> IF r = 1 THEN 0 ELSE t.min_cut_indices[r - 1][2] + 1,
   min_cut_index |-> t.min_cut_indices[r][1],
   end |-> t.min_cut_indices[r][2]]

\* sum of the logged gains of the entries start..k (0-based)
PrefixGain(t, start, k) ==
  LET I == start..k IN SumOver([i \in I |-> t.log[i + 1].gain], I)

\* C29: for every finished round the cumulative logged gain up to
\* min_cut_index is at least that of every prefix of the round's accepted
\* moves, the empty one included; the returned improvement is that gain and is
\* not negative; min_cut_index is below the length of the log, during the
\* round and when it is returned.
C29_BestPrefixOfRound ==
  \A w \in DOMAIN td :
    LET t == td[w] IN
    /\ t.min_cut_index < Len(t.log)
    /\ \A r \in 1..Len(t.min_cut_indices) :
         LET b == RoundBlock(t, r)
             best == PrefixGain(t, b.start, b.min_cut_index)
         IN  /\ \A k \in (b.start - 1)..(b.end - 1) : best >= PrefixGain(t, b.start, k)
             /\ t.improvements[r] = best
             /\ best >= 0
             /\ b.min_cut_index < b.end
             /\ b.min_cut_index < Len(t.log)

\* a finished round accepted moves beyond its best index and returned a
\* positive improvement
C29_Reached ==
  \E w \in DOMAIN td : \E r \in 1..Len(td[w].min_cut_indices) :
    LET b == RoundBlock(td[w], r) IN
    /\ b.start <= b.min_cut_index
    /\ b.min_cut_index < b.end - 1
    /\ td[w].improvements[r] > 0

\* C30: a worker that is at the head of its round loop while
\* num_threads_finished > 0 pops nothing more in that round: its next step
\* ends the round, with the local counters unrolled to the state after the
\* kept moves and the sentinel appended to the logs.
C30_EarlyTermination ==
  [][\A w \in DOMAIN td :
       (td[w].pc = "loop" /\ num_threads_finished > 0 /\ td'[w] # td[w]) =>
         /\ td'[w].pc = "idle"
         /\ td'[w].rounds = td[w].rounds + 1
         /\ td'[w].log = Append(td[w].log, SentinelEntry)
         /\ td'[w].min_cut_indices =
              Append(td[w].min_cut_indices, <<td[w].min_cut_index, Len(td[w].log)>>)
         /\ \A b \in Blocks :
              /\ td'[w].parts_weights[b] = td[w].pre_weights[b] + KeptWeight(td'[w], b)
              /\ td'[w].parts_sizes[b] = td[w].pre_sizes[b] + KeptSize(td'[w], b)]_vars

\* a round was ended by the early-termination check after it had accepted a
\* move beyond its best index
C30_Reached ==
  \E w \in DOMAIN td :
    /\ td[w].pc = "idle"
    /\ td[w].stop = "threads_finished"
    /\ td[w].min_cut_indices # <<>>
    /\ LastRound(td[w]).min_cut_index < LastRound(td[w]).end - 1
    /\ LastRound(td[w]).start < LastRound(td[w]).end

\* the block of worker log t that ends with the sentinel at next_index
BlockOf(t, next_index) ==
  RoundBlock(t, CHOOSE r \in 1..Len(t.min_cut_indices) :
                  t.min_cut_indices[r][2] = next_index)

\* entry i (0-based) of worker id's log is committed under the labels L and
\* the moved_nodes map mn
Committed(L, mn, id, i) ==
  LET en == td[id].log[i + 1]
  IN  L[en.node] = en.to /\ mn[en.node] = <<id, en.from>>

C25_TouchedBlocksActivated ==
  (qgr.pc = "stats" /\
   qgr.config.refinement_scheduling_algorithm = "ACTIVE_BLOCKS_REF_KWAY") =>
    qgr.touched_blocks \subseteq qgr.scheduler.active

\* C25, amended: the touched blocks are activated when the k-way call returned
\* a positive improvement; after a call without improvement the scheduler is
\* as it was before the call.
C25_ActivatedOnImprovement ==
  [][(qgr.pc = "kway" /\ qgr'.pc = "stats" /\
      qgr.config.refinement_scheduling_algorithm = "ACTIVE_BLOCKS_REF_KWAY") =>
       IF qgr'.multitry_improvement > 0
       THEN /\ qgr'.touched_blocks \subseteq qgr'.scheduler.active
            /\ qgr'.scheduler.active = qgr.scheduler.active \cup qgr'.touched_blocks
            /\ qgr'.scheduler.queue = qgr.scheduler.queue
       ELSE qgr'.scheduler = qgr.scheduler]_vars

\* the k-way call improved the cut and touched a block that was not active
C25_Reached ==
  /\ qgr.pc = "stats"
  /\ qgr.multitry_improvement > 0
  /\ \E b \in qgr.touched_blocks : b \notin {qgr.bp[1], qgr.bp[2]}
  /\ qgr.touched_blocks \subseteq qgr.scheduler.active

\* C26: whenever the loop calls hasFinished or getNext after a pair was
\* fetched, pushStatistics has been called exactly once for that pair, with the
\* pair, its two-way improvement and its changed flag.
C26_StatisticsPushedOnce ==
  (qgr.pc \in {"cond", "head", "fetch"} /\ qgr.bp # <<>>) =>
    /\ qgr.no_of_pushes = 1
    /\ qgr.stat = [pushed |-> TRUE, improvement |-> qgr.improvement, pair |-> qgr.bp,
                   something_changed |-> qgr.something_changed]
C32_ShardOwnership ==
  ct.variant = "sharded" =>
    LET src(t) == get_pair_from_uint64(ct.wk[t].key)[1]
        rmw(t) == ct.wk[t].pc \in {"count_w", "scatter_w"}
    IN  /\ \A t \in CWorkers : \A key \in DOMAIN ct.new_edges[t] :
              get_pair_from_uint64(key)[1] % num_threads = t
        /\ \A t1, t2 \in CWorkers :
              t1 # t2 => DOMAIN ct.new_edges[t1] \cap DOMAIN ct.new_edges[t2] = {}
        /\ \A t \in CWorkers : rmw(t) => ct.offsets[src(t)] = ct.wk[t].tmp
        /\ \A t1, t2 \in CWorkers :
              t1 # t2 /\ rmw(t1) /\ rmw(t2) => src(t1) # src(t2)
        /\ \A i \in 1..Len(ct.edge_writes) : ct.edge_writes[i] <= 1

\* both threads are between the read and the write of their ++offsets[a]
C32_Reached ==
  /\ ct.variant = "sharded"
  /\ \A t \in CWorkers : ct.wk[t].pc = "count_w"

(***************************************************************************)
(* C33: when the scatter phase of the sharded contraction has ended, the   *)
(* slots firstEdge(a) .. firstEdge(a+1)-1 of the edge array hold exactly   *)
(* the aggregated arcs with source a, one slot per key (a,b) with the      *)
(* key's aggregate for its weight; every slot of the array was written     *)
(* exactly once; firstEdge(n_coarse) is the number of arcs counted over    *)
(* all shards.                                                             *)
(***************************************************************************)
C33_ScatterFillsRanges ==
  (ct.variant = "sharded" /\ ct.phase \in {"scatter", "built"}
     /\ \A t \in CWorkers : ct.wk[t].pc = "scattered") =>
    LET nc      == ct.no_of_coarse_vertices
        keys    == UNION {DOMAIN ct.new_edges[t] : t \in CWorkers}
        slot(a) == (ct.firstEdge[a] + 1)..ct.firstEdge[a + 1]
        arcs(a) == {[target |-> get_pair_from_uint64(key)[2],
                     weight |-> ct.new_edges[a % num_threads][key]] :
                      key \in {x \in DOMAIN ct.new_edges[a % num_threads] :
                                 get_pair_from_uint64(x)[1] = a}}
    IN  /\ \A a \in 0..(nc - 1) :
              /\ {ct.edges[i] : i \in slot(a)} = arcs(a)
              /\ Cardinality(slot(a)) = Cardinality(arcs(a))
        /\ Len(ct.edges) = Cardinality(keys)
        /\ \A i \in 1..Len(ct.edges) : ct.edge_writes[i] = 1
        /\ ct.firstEdge[nc] = Cardinality(keys)
        /\ ct.firstEdge[nc] = ct.num_edges

\* the scatter phase has ended on a coarse graph of three vertices in which
\* some vertex has two arcs and both shards held entries
C33_Reached ==
  /\ ct.variant = "sharded" /\ ct.phase = "built"
  /\ ct.no_of_coarse_vertices = 3
  /\ \E a \in 0..2 : ct.firstEdge[a + 1] - ct.firstEdge[a] = 2
  /\ \A t \in CWorkers : DOMAIN ct.new_edges[t] # {}

C35_NoCoarseLabels ==
  /\ (ct.variant \in {"single", "sharded"} /\ ~ct.graph_allready_partitioned) =>
        DOMAIN ct.coarser.partition_index = {}
  /\ (ct.variant = "sharded" /\ ct.graph_allready_partitioned) => ct.phase # "built"

\* C35, as the code has it: the multi-thread variant labels no coarse vertex
\* at all, fails its assertion after the construction when
\* graph_allready_partitioned is set and only then; the single-map path
\* gives every coarse vertex the label of the last fine vertex of its
\* cluster, partitioned input or not.
C35_OnlyShardedLeavesLabels ==
  /\ ct.variant = "sharded" => DOMAIN ct.coarser.partition_index = {}
  /\ (ct.variant = "sharded" /\ ct.phase = "built") => ~ct.graph_allready_partitioned
  /\ (ct.variant = "sharded" /\ ct.phase = "aborted") => ct.graph_allready_partitioned
  /\ (ct.variant = "single" /\ ct.phase = "built") =>
        \A n \in CNodes :
          (\A m \in CNodes : ct.coarse_mapping[m] = ct.coarse_mapping[n] => m <= n) =>
            ct.coarser.partition_index[ct.coarse_mapping[n]] = part[n]

\* the multi-thread variant has failed its assertion on a partitioned graph,
\* after the single-map path returned a coarse graph
C35_Reached ==
  /\ ct.variant = "sharded" /\ ct.phase = "aborted"
  /\ "single" \in DOMAIN ct.results

(***************************************************************************)
(* C40: between its two loops contract_clustering has every fine vertex    *)
(* labelled with its cluster id, and while the quotient graph is built the *)
(* fine graph's block count is n_coarse; when it has returned every fine   *)
(* vertex has the block label it had before the call and the fine graph's  *)
(* block count is what it was.                                             *)
(***************************************************************************)
C40_LabelsRestored ==
  ct.variant = "clustering" =>
    /\ ct.pc \in {"count", "quotient"} => ct.G.partition_index = ct.coarse_mapping
    /\ ct.pc = "quotient" => ct.G.partition_count = ct.no_of_coarse_vertices
    /\ ct.pc = "restore" => ct.coarser.nodes = ct.no_of_coarse_vertices
    /\ ct.pc = "returned" => ct.G = ct.before

\* contract_clustering has returned on a graph with an unassigned vertex
\* whose cluster ids differ from the labels, with more clusters than blocks
C40_Reached ==
  /\ ct.variant = "clustering" /\ ct.pc = "returned"
  /\ ct.no_of_coarse_vertices # ct.before.partition_count
  /\ \E n \in CNodes : ct.before.partition_index[n] \notin Blocks
  /\ \E n \in CNodes : ct.before.partition_index[n] # ct.coarse_mapping[n]

(***************************************************************************)
(* C36: within one batch every queued vertex has its claim bit set, a      *)
(* claim bit once set stays set, and a vertex enters a worker's queue only *)
(* when its claim bit was not set: a vertex that was popped is never       *)
(* inserted into any queue again, and every vertex occurs at most once     *)
(* among the non-sentinel entries of all workers' logs.                    *)
(***************************************************************************)
C36_PoppedNeverReinserted ==
  /\ [](\A w \in DOMAIN td : \A v \in td[w].qn : moved_idx[v])
  /\ [](\A w1, w2 \in DOMAIN td :
         \A i \in 1..Len(td[w1].log), j \in 1..Len(td[w2].log) :
           (td[w1].log[i].node # sentinel /\ td[w1].log[i].node = td[w2].log[j].node)
             => (w1 = w2 /\ i = j))
  /\ [][/\ \A v \in Nodes : moved_idx[v] => moved_idx'[v]
        /\ \A w \in DOMAIN td : \A v \in Nodes :
             (v \notin td[w].qn /\ v \in td'[w].qn) => ~moved_idx[v]]_vars

\* a worker has moved a vertex next to the one it moved just before, which
\* still has an edge into another block, and did not queue it again
C36_Reached ==
  \E w \in DOMAIN td : \E i \in 1..(Len(td[w].log) - 1) :
    /\ td[w].pc = "loop" /\ i + 1 = Len(td[w].log)
    /\ td[w].log[i].node # sentinel /\ td[w].log[i + 1].node # sentinel
    /\ td[w].log[i].node \in Neighbours(td[w].log[i + 1].node)
    /\ compute_gain(LocalView(td[w]), td[w].log[i].node).ext_degree > 0
    /\ td[w].log[i].node \notin td[w].qn

(***************************************************************************)
(* C37: within one call of local_search_from_one_node no vertex, the start *)
(* node included, is moved twice: no vertex occurs twice among the         *)
(* transpositions of the running search.                                   *)
(***************************************************************************)
C37_MovedAtMostOnce ==
  co.pc = "ls" =>
    \A i, j \in 1..Len(co.sub.trans) :
      co.sub.trans[i].node = co.sub.trans[j].node => i = j

\* overall_moved = moved_nodes.size() when the coordinator's apply_moves
\* returns: the number of keys of the map
overall_moved == Cardinality({v \in Nodes : moved_nodes[v] # <<>>})

(***************************************************************************)
(* C38: when apply_moves returns, overall_moved is the number of vertices  *)
(* with a committed move that was not rolled back (the vertices whose      *)
(* label differs from the label at the start of the batch), and every      *)
(* vertex with an entry in moved_nodes is such a vertex.                   *)
(***************************************************************************)
C38_OverallMovedCountsMoves ==
  (co.pc = "returned" /\ ~aborted) =>
    /\ overall_moved = Cardinality({v \in Nodes : part[v] # hist.part0[v]})
    /\ \A v \in Nodes : moved_nodes[v] # <<>> => part[v] # hist.part0[v]

(***************************************************************************)
(* C39: when perform_refinement has left its loop, the value it returns    *)
(* (overall_improvement) is the sum of the improvements returned by the    *)
(* two-way refinements of the pairs it fetched, whatever the interleaved   *)
(* k-way calls added to cut_improvement; on a quotient graph without edges *)
(* it returns 0 after the first hasFinished, without any getNext.          *)
(***************************************************************************)
C39_ReturnsTwoWaySum ==
  /\ qgr.pc # "off" => qgr.overall_improvement = qgr.two_way_returned
  /\ (qgr.pc = "done" /\ qgr.scheduler.edges = {}) =>
       /\ qgr.overall_improvement = 0
       /\ qgr.bp = <<>>
       /\ qgr.scheduler.account = MaxPairwiseSteps
       /\ qgr.last_call = "hasFinished"

\* perform_refinement returns a positive sum of two-way improvements that is
\* smaller than what the k-way calls gained in the same run
C39_Reached ==
  /\ qgr.pc = "done"
  /\ qgr.overall_improvement > 0
  /\ qgr.cut_improvement > qgr.overall_improvement

\* perform_refinement has returned on a quotient graph without edges
C39_ReachedEmpty ==
  /\ qgr.pc = "done"
  /\ qgr.scheduler.edges = {}

====
